---- MODULE Spec2Model ----
(***************************************************************************)
(* A model of sgsPy's stratification and stratified-sampling front end:    *)
(* the Python entry points breaks, quantiles, map and strat               *)
(* (src/sgs/stratify, src/sgs/sample/strat), the classification rule the   *)
(* repository's reference loop states, and the allocation / selection      *)
(* stages the entry points hand their arguments to.                        *)
(*                                                                         *)
(* Numbers.  TLC integers are 32-bit, Python integers are unbounded.  A    *)
(* product that may pass 2^31-1 is kept as a record [val, ovf]: ovf = 0    *)
(* and val the exact value, or ovf = 1 (-1) for a value above              *)
(* MAX_STRATA_VAL (below -MAX_STRATA_VAL).  A list of which the code reads *)
(* only len() is kept as its length.  Raster heights and widths are in     *)
(* units of 1024 pixels, so a byte size is in units of 2^20 bytes.         *)
(***************************************************************************)
EXTENDS Integers, Sequences, FiniteSets, TLC

VARIABLES
    pc,          \* "idle" | "returned": position of the caller of the API
    call,        \* the entry point called last and its arguments (for
                 \* quantiles also the caller's num_strata after the call)
    err,         \* the exception the call raised, NoError if it returned
    mkdtemp,     \* number of tempfile.mkdtemp() calls the call made
    native,      \* the native function the call reached ("" if none) and
                 \* the arguments it was handed
    ret,         \* the stratification raster an sgspy.stratify call
                 \* returned: is_strat_rast and srast_metadata_info
    cop,         \* pixels: the operation applied last ("" if none)
    cval,        \* pixels: the pixel value classified last
    cbreaks,     \* pixels: the breakpoint list in use
    cstrat,      \* pixels: the stratum assigned to cval
    cdims,       \* pixels: per pixel, its stratum id in every dimension
    ccounts,     \* pixels: the stratum count declared for every dimension
    cmap,        \* pixels: per pixel, its composite stratum id
    alloc,       \* planner: the request planned last and its plan
    job,         \* sampling: the strat call being served, the arguments
                 \* strat_cpp was handed, and the scene they refer to
    plan,        \* sampling: the allocation plan of the job
    stratum,     \* sampling: the stratum id the selector is working on
    sel,         \* sampling: the selector's state
    samples,     \* sampling: the accepted points, each with the phase
                 \* that accepted it
    report,      \* sampling: the result reported when the job is finished
    handles,     \* temp dirs: per raster handle, whether it is live, its
                 \* have_temp_dir and temp_dir attributes, and the temp
                 \* directory set on its cpp_raster
    dirs,        \* temp dirs: the temporary directories that exist
    made,        \* temp dirs: number of tempfile.mkdtemp() calls so far
    scan,        \* scan: the phase of the block-parallel scan of a band,
                 \* its number of blocks and its worker count
    holds,       \* scan: per worker, the block it is working on
    block,       \* scan: per block, how far its partial summary has got
    accum,       \* scan: per block, how often its partial summary was
                 \* merged into the per-band accumulator
    final,       \* scan: whether the breakpoints are final
    classified   \* scan: per block, whether it was classified, and
                 \* whether the breakpoints were final then

apiVars == <<pc, call, err, mkdtemp, native, ret>>
pixVars == <<cop, cval, cbreaks, cstrat, cdims, ccounts, cmap>>

planVars == <<alloc>>

sampVars == <<job, plan, stratum, sel, samples, report>>

tmpVars == <<handles, dirs, made>>

scanVars == <<scan, holds, block, accum, final, classified>>

vars == <<apiVars, pixVars, planVars, sampVars, tmpVars, scanVars>>

(***************************************************************************)
(* Program constants                                                       *)
(***************************************************************************)
MAX_STRATA_VAL == 2147483647

\* GIGABYTE (1073741824 bytes) in units of 2^20 bytes
GIGABYTE == 1024

NoError == [type |-> "None", msg |-> ""]
ValueError(m) == [type |-> "ValueError", msg |-> m]
TypeError(m) == [type |-> "TypeError", msg |-> m]

NoNative == [fn |-> ""]

\* no stratification raster was returned
NoReturn == [is_strat_rast |-> FALSE, srast_metadata_info |-> <<>>]

(***************************************************************************)
(* Unbounded integer products                                              *)
(***************************************************************************)
Abs(x) == IF x < 0 THEN -x ELSE x
Sgn(x) == IF x < 0 THEN -1 ELSE IF x = 0 THEN 0 ELSE 1

Exact(n) == [val |-> n, ovf |-> 0]

\* p * c for a product record p and an integer c with |c| <= MAX_STRATA_VAL
BigMul(p, c) ==
    IF c = 0 THEN Exact(0)
    ELSE IF p.ovf # 0 THEN [val |-> 0, ovf |-> p.ovf * Sgn(c)]
    ELSE IF Abs(p.val) > MAX_STRATA_VAL \div Abs(c)
         THEN [val |-> 0, ovf |-> Sgn(p.val) * Sgn(c)]
    ELSE Exact(p.val * c)

\* p > MAX_STRATA_VAL
BigGtMax(p) == p.ovf = 1

(***************************************************************************)
(* Rasters handed to the entry points (sgs.utils.SpatialRaster)            *)
(***************************************************************************)
\* bands: the band names in order; height, width in units of 1024 pixels;
\* type_size: bytes per pixel of each band
Raster(b, h, w, ts) == [bands |-> b, height |-> h, width |-> w, type_size |-> ts]

band_count(rast) == Len(rast.bands)

BandNameSet(rast) == {rast.bands[i] : i \in 1..Len(rast.bands)}

\* SpatialRaster.band_name_dict: band name -> 0-based index
band_name_dict(rast, name) ==
    (CHOOSE i \in 1..Len(rast.bands) : rast.bands[i] = name) - 1

\* cpp_raster.get_raster_band_type_size(band), band 0-based
get_raster_band_type_size(rast, band) == rast.type_size[band + 1]

InputRasters ==
    { Raster(<<"zq90">>, 1, 1, <<4>>),
      Raster(<<"zq90", "pzabove2">>, 1, 1, <<4, 4>>),
      Raster(<<"zq90", "pzabove2">>, 16, 16, <<1, 4>>),
      Raster(<<"zq90">>, 32, 32, <<1>>) }

\* band names a caller may write, one of them the name of no band
CallerNames == {"zq90", "pzabove2", "nope"}

\* sequences of length 0..n over S
SeqUpTo(S, n) == UNION {[1..k -> S] : k \in 0..n}

\* sequences of pairwise distinct elements of S, of length 0..n
DistinctSeqUpTo(S, n) ==
    {q \in SeqUpTo(S, n) : \A i, j \in 1..Len(q) : q[i] = q[j] => i = j}

\* driver_options as the caller gives it: None, a dict with str keys, or a
\* dict holding a key that is not a str
DriverOptions == {"None", "str_keys", "nonstr_key"}

(***************************************************************************)
(* breaks (src/sgs/stratify/breaks/breaks.py)                              *)
(***************************************************************************)
\* largest number of breakpoint lists a caller passes
MaxLists == 2

\* lengths of the breakpoint lists a caller passes
BreakLens == {0, 1, 4, 46339, 46340, MAX_STRATA_VAL - 1, MAX_STRATA_VAL}

\* the three forms of the breaks argument, each list kept as its length:
\*   list  - a flat list of lens[1] numbers
\*   lists - a list whose elements are lists, of lengths lens
\*   dict  - a dict keys[i] -> list of length lens[i], in insertion order
BreaksArgs ==
    {[form |-> "list", keys |-> <<>>, lens |-> <<n>>] : n \in BreakLens}
    \cup {[form |-> "lists", keys |-> <<>>, lens |-> l] :
              l \in SeqUpTo(BreakLens, MaxLists) \ {<<>>}}
    \cup {[form |-> "dict", keys |-> k, lens |-> l] :
              k \in DistinctSeqUpTo(CallerNames, MaxLists),
              l \in SeqUpTo(BreakLens, MaxLists)}

WellFormedBreaks(b) == b.form = "dict" => Len(b.keys) = Len(b.lens)

\* lines 96-101: the dict branch, entry i onwards; the loop raises at the
\* first key that names no band
RECURSIVE breaks_dict_items(_, _, _, _)
breaks_dict_items(rast, b, i, acc) ==
    IF i > Len(b.keys) THEN [err |-> NoError, dict |-> acc]
    ELSE IF b.keys[i] \in BandNameSet(rast)
         THEN breaks_dict_items(rast, b, i + 1,
                  Append(acc, [band |-> band_name_dict(rast, b.keys[i]),
                               len |-> b.lens[i]]))
    ELSE [err |-> ValueError("breaks dict key must be a valid band name"),
          dict |-> acc]

\* breaks_to_dict with the list count compared by > in place of !=
breaks_to_dict_fewer_lists(rast, b) ==
    IF b.form = "list" /\ b.lens[1] < 1
    THEN [err |-> ValueError("breaks list must contain at least one element."),
          dict |-> <<>>]
    ELSE IF b.form = "lists"
    THEN IF Len(b.lens) > band_count(rast)
         THEN [err |-> ValueError("number of lists of breaks must be equal to the number of raster bands."),
               dict |-> <<>>]
         ELSE [err |-> NoError,
               dict |-> [i \in 1..Len(b.lens) |->
                            [band |-> i - 1, len |-> b.lens[i]]]]
    ELSE IF b.form = "list"
    THEN IF band_count(rast) # 1
         THEN [err |-> ValueError("if breaks is a single list, raster must have a single band"),
               dict |-> <<>>]
         ELSE [err |-> NoError, dict |-> <<[band |-> 0, len |-> b.lens[1]]>>]
    ELSE breaks_dict_items(rast, b, 1, <<>>)

\* lines 74-101: breaks_dict, a sequence of [band, len] in insertion order,
\* or the error raised while building it
breaks_to_dict(rast, b) ==
    IF b.form = "list" /\ b.lens[1] < 1
    THEN [err |-> ValueError("breaks list must contain at least one element."),
          dict |-> <<>>]
    ELSE IF b.form = "lists"
    THEN IF Len(b.lens) # band_count(rast)
         THEN [err |-> ValueError("number of lists of breaks must be equal to the number of raster bands."),
               dict |-> <<>>]
         ELSE [err |-> NoError,
               dict |-> [i \in 1..Len(b.lens) |->
                            [band |-> i - 1, len |-> b.lens[i]]]]
    ELSE IF b.form = "list"
    THEN IF band_count(rast) # 1
         THEN [err |-> ValueError("if breaks is a single list, raster must have a single band"),
               dict |-> <<>>]
         ELSE [err |-> NoError, dict |-> <<[band |-> 0, len |-> b.lens[1]]>>]
    ELSE breaks_dict_items(rast, b, 1, <<>>)

\* lines 104-113: the overflow check over breaks_dict from entry i, with
\* max_mapped_strata so far in acc; strata_count = len(val) + 1
RECURSIVE breaks_overflow_from(_, _, _)
breaks_overflow_from(dict, i, acc) ==
    IF i > Len(dict)
    THEN IF BigGtMax(acc)
         THEN ValueError("the mapped strata will cause an overflow error because the max strata number is too large.")
         ELSE NoError
    ELSE IF dict[i].len >= MAX_STRATA_VAL
    THEN ValueError("one of the breaks given will cause an integer overflow error because the max strata number is too large.")
    ELSE breaks_overflow_from(dict, i + 1, BigMul(acc, dict[i].len + 1))

\* breaks_overflow_check with max_mapped_strata started at 0 whatever map is
breaks_overflow_check_unmapped(dict, map) ==
    breaks_overflow_from(dict, 1, Exact(0))

\* max_mapped_strata = int(map)
breaks_overflow_check(dict, map) ==
    breaks_overflow_from(dict, 1, Exact(IF map THEN 1 ELSE 0))

\* lines 118-124
driver_options_check(driver_options, msg) ==
    IF driver_options = "nonstr_key" THEN ValueError(msg) ELSE NoError

\* lines 126-135: the size loop over breaks_dict from entry i; it leaves at
\* the first band of a gigabyte or more
RECURSIVE breaks_size_loop(_, _, _, _)
breaks_size_loop(rast, dict, i, bytes) ==
    IF i > Len(dict) THEN [large |-> FALSE, bytes |-> bytes]
    ELSE LET band_size == rast.height * rast.width
                            * get_raster_band_type_size(rast, dict[i].band)
         IN  IF band_size >= GIGABYTE
             THEN [large |-> TRUE, bytes |-> bytes + band_size]
             ELSE breaks_size_loop(rast, dict, i + 1, bytes + band_size)

\* breaks_large_raster with the sum compared by >=
breaks_large_raster_from_four(rast, dict) ==
    LET r == breaks_size_loop(rast, dict, 1, 0)
    IN  r.large \/ (r.bytes >= GIGABYTE * 4)

\* lines 126-138
breaks_large_raster(rast, dict) ==
    LET r == breaks_size_loop(rast, dict, 1, 0)
    IN  r.large \/ (r.bytes > GIGABYTE * 4)

\* an exception raised once the temp directory has been made
Raised_after_mkdtemp(e) == [err |-> e, mkdtemp |-> 1, native |-> NoNative]

Raised(e) == [err |-> e, mkdtemp |-> 0, native |-> NoNative]

\* lines 74-159: what one call of breaks does
breaks_call(rast, b, map, thread_count, driver_options) ==
    LET d == breaks_to_dict(rast, b)
        o == breaks_overflow_check(d.dict, map)
        v == driver_options_check(driver_options,
                 "the key for all key/value pairs in the driver_options dict must be a string")
    IN  IF d.err # NoError THEN Raised(d.err)
        ELSE IF o # NoError THEN Raised(o)
        ELSE IF thread_count < 1
             THEN Raised(ValueError("number of threads can't be less than 1."))
        ELSE IF v # NoError THEN Raised(v)
        ELSE [err |-> NoError,
              mkdtemp |-> 1,
              native |-> [fn |-> "breaks_cpp",
                          dict |-> d.dict,
                          map |-> map,
                          large_raster |-> breaks_large_raster(rast, d.dict),
                          thread_count |-> thread_count]]

(***************************************************************************)
(* quantiles (src/sgs/stratify/quantiles/quantiles.py)                     *)
(***************************************************************************)
\* A probability is kept in tenths: 0 is 0.0, 5 is 0.5, 10 is 1.0.
\* One element of a num_strata list or dict:
\*   [t |-> "int", k |-> K, vals |-> <<>>]     the int K
\*   [t |-> "float", k |-> 0, vals |-> <<v>>]  the float v
\*   [t |-> "list", k |-> 0, vals |-> l]       the list l of floats
IntItem(k) == [t |-> "int", k |-> k, vals |-> <<>>]
FloatItem(v) == [t |-> "float", k |-> 0, vals |-> <<v>>]
ListItem(l) == [t |-> "list", k |-> 0, vals |-> l]

QuantInts == {0, 1, 4, 46340, 46341, MAX_STRATA_VAL}

QuantItems ==
    {IntItem(k) : k \in {0, 4, 46341}}
    \cup {FloatItem(5)}
    \cup {ListItem(l) : l \in {<<>>, <<5>>, <<0, 3, 10>>, <<-1, 5>>, <<5, 11>>}}

\* the flat list[float] forms a caller passes
FloatLists ==
    {<<5>>, <<2, 5>>, <<0, 5>>, <<5, 10>>, <<0, 5, 10>>, <<0, 0, 5>>,
     <<10, 10>>, <<-1, 5>>, <<5, 11>>, <<0>>}

\* the forms of the num_strata argument:
\*   int   - the int k
\*   list  - a list of items; a list[float] when its first item is a float
\*   dict  - a dict keys[i] -> items[i], in insertion order
QuantArgs ==
    {[form |-> "int", k |-> k, keys |-> <<>>, items |-> <<>>] : k \in QuantInts}
    \cup {[form |-> "list", k |-> 0, keys |-> <<>>, items |-> <<>>]}
    \cup {[form |-> "list", k |-> 0, keys |-> <<>>,
           items |-> [i \in 1..Len(l) |-> FloatItem(l[i])]] : l \in FloatLists}
    \cup {[form |-> "list", k |-> 0, keys |-> <<>>, items |-> q] :
              q \in {x \in SeqUpTo(QuantItems, MaxLists) :
                        x # <<>> /\ x[1].t # "float"}}
    \cup {[form |-> "dict", k |-> 0, keys |-> ks, items |-> q] :
              ks \in DistinctSeqUpTo(CallerNames, MaxLists),
              q \in SeqUpTo(QuantItems \ {FloatItem(5)}, MaxLists)}

WellFormedQuant(a) == a.form = "dict" => Len(a.keys) = Len(a.items)

ZeroDivisionError == [type |-> "ZeroDivisionError", msg |-> "division by zero"]

SeqMin(l) == CHOOSE x \in {l[i] : i \in 1..Len(l)} : \A j \in 1..Len(l) : x <= l[j]
SeqMax(l) == CHOOSE x \in {l[i] : i \in 1..Len(l)} : \A j \in 1..Len(l) : x >= l[j]

\* list.remove(x) when x is in the list: the first occurrence goes
RemoveFirst(l, x) ==
    IF \E i \in 1..Len(l) : l[i] = x
    THEN LET i == CHOOSE j \in 1..Len(l) :
                      l[j] = x /\ \A m \in 1..(j - 1) : l[m] # x
         IN  SubSeq(l, 1, i - 1) \o SubSeq(l, i + 1, Len(l))
    ELSE l

\* lines 117-122: "ensure 1 and 0 are removed"
remove_zero_one(l) == RemoveFirst(RemoveFirst(l, 0), 10)

\* one entry of probabilities_dict: the band, the number of probabilities,
\* and either the int K they come from (range(1, K) / K) or the list itself
RangeEntry(band, k) ==
    [band |-> band, len |-> IF k > 1 THEN k - 1 ELSE 0,
     kind |-> "range", k |-> k, vals |-> <<>>]
ListEntry(band, l) ==
    [band |-> band, len |-> Len(l), kind |-> "list", k |-> 0, vals |-> l]

\* lines 131-144 and 152-165: the probabilities of one int or list item
quantiles_item(band, item) ==
    IF item.t = "int"
    THEN IF item.k = 0 THEN [err |-> ZeroDivisionError, entry |-> RangeEntry(band, 0)]
         ELSE [err |-> NoError, entry |-> RangeEntry(band, item.k)]
    ELSE IF item.t = "float"
    THEN [err |-> TypeError("'float' object is not iterable"),
          entry |-> ListEntry(band, <<>>)]
    ELSE IF item.vals = <<>>
    THEN [err |-> ValueError("min() arg is an empty sequence"),
          entry |-> ListEntry(band, <<>>)]
    ELSE IF SeqMin(item.vals) < 0
    THEN [err |-> ValueError("list[float] must not contain value less than 0"),
          entry |-> ListEntry(band, <<>>)]
    ELSE IF SeqMax(item.vals) > 10
    THEN [err |-> ValueError("list[float] must not contain value greater than 1"),
          entry |-> ListEntry(band, <<>>)]
    ELSE [err |-> NoError, entry |-> ListEntry(band, remove_zero_one(item.vals))]

\* lines 130-144: the loop over a list of per-band items, from item i
RECURSIVE quantiles_list_items(_, _, _)
quantiles_list_items(a, i, acc) ==
    IF i > Len(a.items) THEN [err |-> NoError, dict |-> acc]
    ELSE LET r == quantiles_item(i - 1, a.items[i])
         IN  IF r.err # NoError THEN [err |-> r.err, dict |-> acc]
             ELSE quantiles_list_items(a, i + 1, Append(acc, r.entry))

\* lines 147-165: the loop over a dict, from entry i
RECURSIVE quantiles_dict_items(_, _, _, _)
quantiles_dict_items(rast, a, i, acc) ==
    IF i > Len(a.keys) THEN [err |-> NoError, dict |-> acc]
    ELSE IF a.keys[i] \notin BandNameSet(rast)
    THEN [err |-> ValueError("probabilities dict key must be valid band name"),
          dict |-> acc]
    ELSE LET r == quantiles_item(band_name_dict(rast, a.keys[i]), a.items[i])
         IN  IF r.err # NoError THEN [err |-> r.err, dict |-> acc]
             ELSE quantiles_dict_items(rast, a, i + 1, Append(acc, r.entry))

FloatVals(items) == [i \in 1..Len(items) |-> items[i].vals[1]]

\* lines 93-165: probabilities_dict, a sequence of entries in insertion
\* order, or the error raised while building it
quantiles_to_dict(rast, a) ==
    IF a.form = "list" /\ Len(a.items) < 1
    THEN [err |-> ValueError("num_strata list must contain at least one element"),
          dict |-> <<>>]
    ELSE IF a.form = "int"
    THEN IF band_count(rast) # 1
         THEN [err |-> ValueError("num_strata int is for a single rast band"),
               dict |-> <<>>]
         ELSE IF a.k = 0 THEN [err |-> ZeroDivisionError, dict |-> <<>>]
         ELSE [err |-> NoError, dict |-> <<RangeEntry(0, a.k)>>]
    ELSE IF a.form = "list" /\ a.items[1].t = "float"
    THEN IF band_count(rast) # 1
         THEN [err |-> ValueError("num_strata list[float] type is for a single raster band"),
               dict |-> <<>>]
         ELSE IF SeqMin(FloatVals(a.items)) < 0
         THEN [err |-> ValueError("list[float] must not contain a value less than 0"),
               dict |-> <<>>]
         ELSE IF SeqMax(FloatVals(a.items)) > 10
         THEN [err |-> ValueError("list[float] must not contain a value greater than 1"),
               dict |-> <<>>]
         ELSE [err |-> NoError,
               dict |-> <<ListEntry(0, remove_zero_one(FloatVals(a.items)))>>]
    ELSE IF a.form = "list"
    THEN IF Len(a.items) # band_count(rast)
         THEN [err |-> ValueError("number of lists in num_strata must be equal to the number of raster bands."),
               dict |-> <<>>]
         ELSE quantiles_list_items(a, 1, <<>>)
    ELSE quantiles_dict_items(rast, a, 1, <<>>)

\* lines 130-144 and 147-165: the caller's items once the loop over them
\* has ended or raised. probabilities_dict[i] = num_strata[i] binds the
\* caller's own list, so the remove() calls of lines 141-144 and 162-165
\* take its 0.0 and 1.0 away; the items before the one that raises have
\* been through them already
RECURSIVE quantiles_items_after(_, _, _, _)
quantiles_items_after(rast, a, i, items) ==
    IF i > Len(a.items) THEN items
    ELSE IF a.form = "dict" /\ a.keys[i] \notin BandNameSet(rast) THEN items
    ELSE IF quantiles_item(0, a.items[i]).err # NoError THEN items
    ELSE IF a.items[i].t = "int"
    THEN quantiles_items_after(rast, a, i + 1, items)
    ELSE quantiles_items_after(rast, a, i + 1,
             [items EXCEPT ![i] = ListItem(remove_zero_one(a.items[i].vals))])

\* lines 93-165: the caller's num_strata object when quantiles has
\* returned or raised; lines 117-122 bind a list[float] itself to
\* probabilities_dict[0] and remove its 0.0 and 1.0
quantiles_arg_after(rast, a) ==
    IF a.form = "int" THEN a
    ELSE IF a.form = "list" /\ Len(a.items) < 1 THEN a
    ELSE IF a.form = "list" /\ a.items[1].t = "float"
    THEN IF quantiles_to_dict(rast, a).err # NoError THEN a
         ELSE LET l == remove_zero_one(FloatVals(a.items))
              IN  [a EXCEPT !.items = [i \in 1..Len(l) |-> FloatItem(l[i])]]
    ELSE IF a.form = "list" /\ Len(a.items) # band_count(rast) THEN a
    ELSE [a EXCEPT !.items = quantiles_items_after(rast, a, 1, a.items)]

\* lines 167-176: the overflow check over probabilities_dict from entry i;
\* strata_count = len(val) + 1
RECURSIVE quantiles_overflow_from(_, _, _)
quantiles_overflow_from(dict, i, acc) ==
    IF i > Len(dict)
    THEN IF BigGtMax(acc)
         THEN ValueError("the mapped strata will cause an overflow error because the max strata number is too large.")
         ELSE NoError
    ELSE IF dict[i].len >= MAX_STRATA_VAL
    THEN ValueError("one of the quantiles given will cause an integer overflow error because the max strata number is too large.")
    ELSE quantiles_overflow_from(dict, i + 1, BigMul(acc, dict[i].len + 1))

\* max_mapped_strata = int(map)
quantiles_overflow_check(dict, map) ==
    quantiles_overflow_from(dict, 1, Exact(IF map THEN 1 ELSE 0))

\* lines 188-198: the size loop over probabilities_dict from entry i
RECURSIVE quantiles_size_loop(_, _, _, _)
quantiles_size_loop(rast, dict, i, bytes) ==
    IF i > Len(dict) THEN [large |-> FALSE, bytes |-> bytes]
    ELSE LET band_size == rast.height * rast.width
                            * get_raster_band_type_size(rast, dict[i].band)
         IN  IF band_size >= GIGABYTE
             THEN [large |-> TRUE, bytes |-> bytes + band_size]
             ELSE quantiles_size_loop(rast, dict, i + 1, bytes + band_size)

\* lines 188-201
quantiles_large_raster(rast, dict) ==
    LET r == quantiles_size_loop(rast, dict, 1, 0)
    IN  r.large \/ (r.bytes > GIGABYTE * 4)

\* lines 93-222: what one call of quantiles does
quantiles_call(rast, a, map, thread_count, driver_options) ==
    LET d == quantiles_to_dict(rast, a)
        o == quantiles_overflow_check(d.dict, map)
        v == driver_options_check(driver_options,
                 "the key for all key/value pairs in the driver_options dict must be a string.")
    IN  IF d.err # NoError THEN Raised(d.err)
        ELSE IF o # NoError THEN Raised(o)
        ELSE IF thread_count < 1
             THEN Raised(ValueError("number of threads can't be less than 1."))
        ELSE IF v # NoError THEN Raised(v)
        ELSE [err |-> NoError,
              mkdtemp |-> 1,
              native |-> [fn |-> "quantiles_cpp",
                          dict |-> d.dict,
                          map |-> map,
                          large_raster |-> quantiles_large_raster(rast, d.dict),
                          thread_count |-> thread_count]]

(***************************************************************************)
(* map (src/sgs/stratify/map/map_stratifications.py)                       *)
(***************************************************************************)
\* a band as the caller names it: an int index or a str name
IntBand(i) == [t |-> "int", i |-> i, s |-> ""]
StrBand(n) == [t |-> "str", i |-> 0, s |-> n]

\* the bands or num_stratum member of a tuple: a single value
\* (list = FALSE, items = <<v>>) or a list of values
Single(v) == [list |-> FALSE, items |-> <<v>>]
List(l) == [list |-> TRUE, items |-> l]

\* stratification rasters handed to map
StratRasters ==
    { Raster(<<"strat_zq90", "strat_pzabove2">>, 1, 1, <<4, 4>>),
      Raster(<<"strat_zq90", "strat_pzabove2">>, 32, 16, <<4, 1>>),
      Raster(<<"strat_zsd">>, 1, 1, <<4>>) }

MapBands ==
    {IntBand(0), IntBand(1), IntBand(2), StrBand("strat_pzabove2"), StrBand("nope")}

\* stratum counts a caller declares
MapCounts == {-1, 0, 5, 50000}

MapTuple(r, b, n) == [rast |-> r, bands |-> b, num_stratum |-> n]

MapBandArgs ==
    {Single(x) : x \in MapBands} \cup {List(l) : l \in SeqUpTo(MapBands, MaxLists)}

MapCountArgs ==
    {Single(x) : x \in MapCounts} \cup {List(l) : l \in SeqUpTo(MapCounts, MaxLists)}

\* what may follow the first tuple: nothing, or one more tuple
MoreTuples ==
    { <<>>,
      <<MapTuple(Raster(<<"strat_zsd">>, 1, 1, <<4>>), Single(StrBand("strat_zsd")), Single(1000))>>,
      <<MapTuple(Raster(<<"strat_zsd">>, 1, 1, <<4>>), Single(IntBand(0)), Single(25))>>,
      <<MapTuple(Raster(<<"strat_zsd">>, 32, 16, <<4>>), Single(IntBand(0)), Single(25))>>,
      <<MapTuple(Raster(<<"strat_zsd">>, 1, 2, <<4>>), List(<<IntBand(0)>>), List(<<5>>))>> }

\* get_band_int taking every band as it comes: an int as the index, a name
\* that is not in the raster as band 0
get_band_int_unchecked(raster, band) ==
    IF band.t = "int"
    THEN [err |-> NoError, band |-> band.i]
    ELSE IF band.s \notin BandNameSet(raster)
         THEN [err |-> NoError, band |-> 0]
         ELSE [err |-> NoError, band |-> band_name_dict(raster, band.s)]

\* lines 109-120: get_band_int
get_band_int(raster, band) ==
    IF band.t = "int"
    THEN IF band.i \notin 0..(band_count(raster) - 1)
         THEN [err |-> ValueError("band is out of range."), band |-> 0]
         ELSE [err |-> NoError, band |-> band.i]
    ELSE IF band.s \notin BandNameSet(raster)
         THEN [err |-> ValueError("band is not a band within the raster."), band |-> 0]
         ELSE [err |-> NoError, band |-> band_name_dict(raster, band.s)]

\* the running state of map's loop over its tuples
MapAcc ==
    [err |-> NoError, band_lists |-> <<>>, strata_lists |-> <<>>,
     raster_size_bytes |-> 0, large_raster |-> FALSE]

\* lines 125-136: the loop over a bands list, from element i
RECURSIVE map_band_list(_, _, _, _, _, _, _)
map_band_list(t, height, width, i, band_list, stratum_list, st) ==
    IF i > Len(t.bands.items)
    THEN [st EXCEPT !.band_lists = Append(@, band_list),
                    !.strata_lists = Append(@, stratum_list)]
    ELSE LET g == get_band_int(t.rast, t.bands.items[i])
             band_size == height * width
                            * get_raster_band_type_size(t.rast, g.band)
         IN  IF g.err # NoError THEN [st EXCEPT !.err = g.err]
             ELSE map_band_list(t, height, width, i + 1,
                      Append(band_list, g.band),
                      Append(stratum_list, t.num_stratum.items[i]),
                      [st EXCEPT !.raster_size_bytes = @ + band_size,
                                 !.large_raster = @ \/ band_size > GIGABYTE])

\* map_band_single handing on the largest stratum id, num_stratum - 1, as
\* the count
map_band_single_max_id(t, height, width, st) ==
    LET g == get_band_int(t.rast, t.bands.items[1])
        band_size == height * width
                       * get_raster_band_type_size(t.rast, g.band)
    IN  IF g.err # NoError THEN [st EXCEPT !.err = g.err]
        ELSE [st EXCEPT !.band_lists = Append(@, <<g.band>>),
                        !.strata_lists = Append(@, <<t.num_stratum.items[1] - 1>>),
                        !.raster_size_bytes = @ + band_size]

\* lines 137-147: a single band; "large_raster == True" compares and
\* assigns nothing
map_band_single(t, height, width, st) ==
    LET g == get_band_int(t.rast, t.bands.items[1])
        band_size == height * width
                       * get_raster_band_type_size(t.rast, g.band)
    IN  IF g.err # NoError THEN [st EXCEPT !.err = g.err]
        ELSE [st EXCEPT !.band_lists = Append(@, <<g.band>>),
                        !.strata_lists = Append(@, <<t.num_stratum.items[1]>>),
                        !.raster_size_bytes = @ + band_size]

\* lines 91-152: one pass of the loop body, for tuple t
map_tuple(t, height, width, st) ==
    IF t.rast.height # height
    THEN [st EXCEPT !.err = ValueError("height is not the same across all rasters.")]
    ELSE IF t.rast.width # width
    THEN [st EXCEPT !.err = ValueError("width is not the same across all rasters.")]
    ELSE IF t.bands.list /\ t.num_stratum.list
            /\ Len(t.bands.items) # Len(t.num_stratum.items)
    THEN [st EXCEPT !.err = ValueError("if bands and num_stratum arguments are lists, they must have the same length.")]
    ELSE IF t.bands.list # t.num_stratum.list
    THEN [st EXCEPT !.err = TypeError("if one of bands and num_stratum is list, the other one must be a list of the same length.")]
    ELSE IF t.bands.list /\ Len(t.bands.items) > band_count(t.rast)
    THEN [st EXCEPT !.err = ValueError("bands list cannot have more bands than raster contains.")]
    ELSE IF t.bands.list
    THEN map_band_list(t, height, width, 1, <<>>, <<>>, st)
    ELSE map_band_single(t, height, width, st)

\* lines 86-152: the loop over args, from tuple i
RECURSIVE map_args_loop(_, _, _)
map_args_loop(args, i, st) ==
    IF i > Len(args) \/ st.err # NoError THEN st
    ELSE map_args_loop(args, i + 1,
             map_tuple(args[i], args[1].rast.height, args[1].rast.width, st))

\* lines 160-163: max_mapped_strata over the counts of every strata list
RECURSIVE map_product(_, _, _, _)
map_product(strata_lists, i, j, acc) ==
    IF i > Len(strata_lists) THEN acc
    ELSE IF j > Len(strata_lists[i])
    THEN map_product(strata_lists, i + 1, 1, acc)
    ELSE map_product(strata_lists, i, j + 1, BigMul(acc, strata_lists[i][j]))

\* map_overflow_check with each count compared on its own, never the product
map_overflow_check_per_band(strata_lists) ==
    IF \E i \in 1..Len(strata_lists) : \E j \in 1..Len(strata_lists[i]) :
          strata_lists[i][j] > MAX_STRATA_VAL
    THEN ValueError("the mapped strata will cause an overflow error because the max strata number is too large.")
    ELSE NoError

\* lines 159-165
map_overflow_check(strata_lists) ==
    IF BigGtMax(map_product(strata_lists, 1, 1, Exact(1)))
    THEN ValueError("the mapped strata will cause an overflow error because the max strata number is too large.")
    ELSE NoError

\* lines 82-196: what one call of map does
map_call(args, driver_options) ==
    LET st == map_args_loop(args, 1, MapAcc)
        o == map_overflow_check(st.strata_lists)
        v == driver_options_check(driver_options,
                 "the key for all key/value pairs in teh driver_options dict must be a string")
    IN  IF st.err # NoError THEN Raised(st.err)
        ELSE IF o # NoError THEN Raised(o)
        ELSE IF v # NoError THEN Raised(v)
        ELSE [err |-> NoError,
              mkdtemp |-> 1,
              native |-> [fn |-> "map_cpp",
                          band_lists |-> st.band_lists,
                          strata_lists |-> st.strata_lists,
                          large_raster |-> st.large_raster
                              \/ (st.raster_size_bytes > GIGABYTE * 4)]]

(***************************************************************************)
(* strat (src/sgs/sample/strat/strat.py)                                   *)
(***************************************************************************)
\* an optional argument: None (with a placeholder of the argument's
\* type), or a value
Some(x) == [none |-> FALSE, v |-> x]
NoNum == [none |-> TRUE, v |-> 0]
NoStr == [none |-> TRUE, v |-> ""]
NoBand == [none |-> TRUE, v |-> IntBand(0)]
NoRaster == [none |-> TRUE, v |-> Raster(<<>>, 0, 0, <<>>)]
NoWeights == [none |-> TRUE, v |-> <<>>]
NoVector == [none |-> TRUE, v |-> {}]

\* A weight is a float q/WeightUnits + e * 2^-52 with 0 < q < WeightUnits,
\* kept as [q, e].  q/WeightUnits is a multiple of 2^-52 below 1, so every
\* partial sum of a weight list below 2 is a double and np.sum adds without
\* rounding; a sum of 2 or more differs from 1 in the floats and here.
WeightUnits == 4
Weight(q, e) == [q |-> q, e |-> e]

\* 1e-9 in units of 2^-52 (1e-9 * 2^52 = 4503599.6...)
Tolerance == 4503599

RECURSIVE SumQ(_)
SumQ(w) == IF w = <<>> THEN 0 ELSE w[1].q + SumQ(Tail(w))
RECURSIVE SumE(_)
SumE(w) == IF w = <<>> THEN 0 ELSE w[1].e + SumE(Tail(w))

\* line 148: np.sum(weights) != 1
weights_sum_is_not_one(w) == ~(SumQ(w) = WeightUnits /\ SumE(w) = 0)

\* lines 144-152: the checks of manual allocation
manual_weights_check(weights, num_strata) ==
    IF weights.none
    THEN ValueError("for manual allocation, weights must be given.")
    ELSE IF weights_sum_is_not_one(weights.v)
    THEN ValueError("weights must sum to 1.")
    ELSE IF Len(weights.v) # num_strata
    THEN ValueError("length of 'weights' must be the same as the number of strata.")
    ELSE NoError

NameError(m) == [type |-> "NameError", msg |-> m]

\* lines 124-133: band as a 0-based index; the message of the int branch
\* reads the undefined name "raster"
strat_band(strat_rast, band) ==
    IF band.t = "str"
    THEN IF band.s \notin BandNameSet(strat_rast)
         THEN [err |-> ValueError("band not in given raster."), band |-> 0]
         ELSE [err |-> NoError, band |-> band_name_dict(strat_rast, band.s)]
    ELSE IF band.i >= Len(strat_rast.bands)
         THEN [err |-> NameError("name 'raster' is not defined"), band |-> band.i]
         ELSE [err |-> NoError, band |-> band.i]

\* lines 154-177: the auxiliary raster of optim allocation; band is the
\* 0-based index lines 124-133 left, and line 164 tests it, not mrast_band,
\* against the names of mrast's bands
strat_mrast(allocation, mrast, mrast_band, band) ==
    IF allocation # "optim" THEN [err |-> NoError, given |-> FALSE, mrast_band |-> -1]
    ELSE IF mrast.none
    THEN [err |-> ValueError("the 'mrast' parameter must be provided if allocation is 'optim'."),
          given |-> FALSE, mrast_band |-> -1]
    ELSE IF mrast_band.none
    THEN IF Len(mrast.v.bands) # 1
         THEN [err |-> ValueError("the 'mrast_band' parameter must be given if the 'mrast' SpatialRaster contains more than 1 band."),
               given |-> FALSE, mrast_band |-> -1]
         ELSE [err |-> NoError, given |-> TRUE, mrast_band |-> 1]
    ELSE IF mrast_band.v.t = "str"
    THEN [err |-> ValueError("band not in mraster."), given |-> FALSE, mrast_band |-> -1]
    ELSE IF mrast_band.v.i >= Len(mrast.v.bands)
    THEN [err |-> ValueError("0-indexed band given, but raster only has fewer bands."),
          given |-> FALSE, mrast_band |-> -1]
    ELSE [err |-> NoError, given |-> TRUE, mrast_band |-> mrast_band.v.i]

\* an access vector and its arguments: the vector's layers,
\* layer_name, buff_inner, buff_outer
Access(layers, layer_name, buff_inner, buff_outer) ==
    [layers |-> layers, layer_name |-> layer_name,
     buff_inner |-> buff_inner, buff_outer |-> buff_outer]

\* strat_access handing on no access vector
strat_access_not_given(access) ==
    [err |-> NoError, given |-> FALSE, layer_name |-> "",
     buff_inner |-> -1, buff_outer |-> -1]

\* lines 185-208
strat_access(access) ==
    IF access.none
    THEN [err |-> NoError, given |-> FALSE, layer_name |-> "",
          buff_inner |-> -1, buff_outer |-> -1]
    ELSE LET a == access.v
             bad(e) == [err |-> e, given |-> FALSE, layer_name |-> "",
                        buff_inner |-> -1, buff_outer |-> -1]
             layer_name == IF a.layer_name.none THEN a.layers[1]
                           ELSE a.layer_name.v
             buff_inner == IF a.buff_inner.none \/ a.buff_inner.v < 0 THEN 0
                           ELSE a.buff_inner.v
         IN  IF a.layer_name.none /\ Len(a.layers) > 1
             THEN bad(ValueError("if there are multiple layers in the access vector, layer_name must be defined."))
             ELSE IF layer_name \notin {a.layers[i] : i \in 1..Len(a.layers)}
             THEN bad(ValueError("layer specified by 'layer_name' does not exist in the access vector"))
             ELSE IF a.buff_outer.none \/ a.buff_outer.v <= 0
             THEN bad(ValueError("if an access vector is given, buff_outer must be a float greater than 0."))
             ELSE IF buff_inner >= a.buff_outer.v
             THEN bad(ValueError("buff_outer must be greater than buff_inner"))
             ELSE [err |-> NoError, given |-> TRUE, layer_name |-> layer_name,
                   buff_inner |-> buff_inner, buff_outer |-> a.buff_outer.v]

\* strat_mindist handing on 0 whatever mindist is
strat_mindist_dropped(mindist) == 0

\* lines 218-219
strat_mindist(mindist) == IF mindist.none THEN 0 ELSE mindist.v

\* strat_existing handing on no vector
strat_existing_dropped(existing) == NoVector

\* lines 210-213: the existing vector handed on, None if none was given
strat_existing(existing) == existing

\* lines 215-216
strat_weights(allocation, weights) ==
    IF allocation # "manual" THEN <<>> ELSE weights.v

\* lines 124-276: what one call of strat does.  c.has_temp_dir: whether
\* strat_rast.cpp_raster.get_temp_dir() is not "".
strat_call(c) ==
    LET b == strat_band(c.strat_rast, c.band)
        w == manual_weights_check(c.weights, c.num_strata)
        m == strat_mrast(c.allocation, c.mrast, c.mrast_band, b.band)
        a == strat_access(c.access)
        mindist == strat_mindist(c.mindist)
    IN  IF b.err # NoError THEN Raised(b.err)
        ELSE IF c.num_samples < 1
        THEN Raised(ValueError("num_samples must be greater than 0"))
        ELSE IF c.method \notin {"random", "Queinnec"}
        THEN Raised(ValueError("method must be either 'random' or 'Queinnec'."))
        ELSE IF c.allocation \notin {"prop", "optim", "equal", "manual"}
        THEN Raised(ValueError("method must be one of 'prop', 'optim', 'equal', or 'manual'."))
        ELSE IF c.allocation = "manual" /\ w # NoError THEN Raised(w)
        ELSE IF m.err # NoError THEN Raised(m.err)
        ELSE IF c.wrow \notin {3, 5, 7}
        THEN Raised(ValueError("wrow must be one of 3, 5, 7."))
        ELSE IF c.wcol \notin {3, 5, 7}
        THEN Raised(ValueError("wcol must be one of 3, 5, 7."))
        ELSE IF a.err # NoError THEN Raised(a.err)
        ELSE IF mindist < 0
        THEN Raised(ValueError("mindist must be greater than or equal to 0"))
        ELSE IF band_count(c.strat_rast) # 1
        THEN Raised(ValueError("strat_raster must have a single band."))
        ELSE [err |-> NoError,
              mkdtemp |-> IF c.has_temp_dir THEN 0 ELSE 1,
              native |-> [fn |-> "strat_cpp",
                          band |-> b.band,
                          num_samples |-> c.num_samples,
                          num_strata |-> c.num_strata,
                          allocation |-> c.allocation,
                          weights |-> strat_weights(c.allocation, c.weights),
                          mrast_given |-> m.given,
                          mrast_band |-> m.mrast_band,
                          method |-> c.method,
                          wrow |-> c.wrow,
                          wcol |-> c.wcol,
                          mindist |-> mindist,
                          existing |-> strat_existing(c.existing),
                          force |-> c.force,
                          access_given |-> a.given,
                          layer_name |-> a.layer_name,
                          buff_inner |-> a.buff_inner,
                          buff_outer |-> a.buff_outer]]

\* strat_finish raising when fewer points than asked for were found
strat_finish_raises(num_points, num_samples) ==
    [err |-> IF num_points < num_samples
             THEN ValueError("unable to find the full samples within the given constraints.")
             ELSE NoError,
     printed |-> FALSE]

\* lines 256-276: after strat_cpp has returned num_points points, the
\* message printed when they are fewer than num_samples, and the return of
\* SpatialVector(samples); nothing is raised
strat_finish(num_points, num_samples) ==
    [err |-> NoError, printed |-> num_points < num_samples]

\* --- the calls of strat a caller makes ---
StratTargets ==
    LET one == Raster(<<"strat_zq90">>, 1, 1, <<4>>)
        two == Raster(<<"strat_zq90", "strat_pzabove2">>, 1, 1, <<4, 4>>)
        T(r, h, b) == [strat_rast |-> r, has_temp_dir |-> h, band |-> b]
    IN  { T(one, TRUE, StrBand("strat_zq90")), T(one, FALSE, StrBand("strat_zq90")),
          T(one, TRUE, IntBand(0)), T(one, TRUE, StrBand("nope")),
          T(one, TRUE, IntBand(1)), T(one, FALSE, IntBand(-1)),
          T(two, TRUE, IntBand(1)) }

StratWindows == {<<3, 3>>, <<5, 7>>, <<4, 3>>, <<3, 9>>}

NoAccess == [none |-> TRUE, v |-> Access(<<>>, NoStr, NoNum, NoNum)]

StratAccess ==
    { NoAccess,
      Some(Access(<<"access">>, Some("access"), Some(90), Some(300))),
      Some(Access(<<"access">>, NoStr, NoNum, Some(600))),
      Some(Access(<<"access", "roads">>, NoStr, Some(0), Some(600))),
      Some(Access(<<"access">>, Some("roads"), Some(0), Some(600))),
      Some(Access(<<"access">>, Some("access"), Some(300), Some(300))),
      Some(Access(<<"access">>, Some("access"), Some(-5), NoNum)) }

StratMindists == {NoNum, Some(-1), Some(0), Some(150)}

\* existing: None or a vector (kept as the set of its point ids)
StratExisting == {NoVector, Some({1, 2})}

MRasters ==
    { <<NoRaster, NoBand>>,
      <<Some(Raster(<<"zq90">>, 1, 1, <<4>>)), NoBand>>,
      <<Some(Raster(<<"zq90">>, 1, 1, <<4>>)), Some(IntBand(0))>>,
      <<Some(Raster(<<"zq90">>, 1, 1, <<4>>)), Some(StrBand("zq90"))>>,
      <<Some(Raster(<<"zq90", "pzabove2">>, 1, 1, <<4, 4>>)), NoBand>>,
      <<Some(Raster(<<"zq90", "pzabove2">>, 1, 1, <<4, 4>>)), Some(IntBand(1))>>,
      <<Some(Raster(<<"zq90", "pzabove2">>, 1, 1, <<4, 4>>)), Some(IntBand(2))>> }

\* largest number of weights a caller passes
MaxWeights == 3

WeightValues ==
    {Weight(q, e) : q \in 1..(WeightUnits - 2),
                    e \in {-1, 0, 1, Tolerance, Tolerance + 1}}

WeightLists == SeqUpTo(WeightValues, MaxWeights)

StratNumStrata == {2, 3}

StratCall(t, num_samples, num_strata, win, allocation, weights, mr, method, mindist, existing, force, access) ==
    [strat_rast |-> t.strat_rast, has_temp_dir |-> t.has_temp_dir,
     band |-> t.band, num_samples |-> num_samples, num_strata |-> num_strata,
     wrow |-> win[1], wcol |-> win[2], allocation |-> allocation,
     weights |-> weights, mrast |-> mr[1], mrast_band |-> mr[2],
     method |-> method, mindist |-> mindist, existing |-> existing,
     force |-> force, access |-> access]

ThreadCounts == {0, 8}

breaks ==
    /\ pc = "idle"
    /\ \E rast \in InputRasters, b \in BreaksArgs, map \in BOOLEAN,
          thread_count \in ThreadCounts, driver_options \in DriverOptions :
          /\ WellFormedBreaks(b)
          /\ LET r == breaks_call(rast, b, map, thread_count, driver_options)
             IN  /\ call' = [fn |-> "breaks", rast |-> rast, arg |-> b,
                             map |-> map, thread_count |-> thread_count,
                             driver_options |-> driver_options]
                 /\ err' = r.err
                 /\ mkdtemp' = r.mkdtemp
                 /\ native' = r.native
    /\ pc' = "returned"
    /\ UNCHANGED <<tmpVars, scanVars, ret, pixVars, planVars, sampVars>>

quantiles ==
    /\ pc = "idle"
    /\ \E rast \in InputRasters, a \in QuantArgs, map \in BOOLEAN,
          thread_count \in ThreadCounts, driver_options \in DriverOptions :
          /\ WellFormedQuant(a)
          /\ LET r == quantiles_call(rast, a, map, thread_count, driver_options)
             IN  /\ call' = [fn |-> "quantiles", rast |-> rast, arg |-> a,
                             map |-> map, thread_count |-> thread_count,
                             driver_options |-> driver_options,
                             arg_after |-> quantiles_arg_after(rast, a)]
                 /\ err' = r.err
                 /\ mkdtemp' = r.mkdtemp
                 /\ native' = r.native
    /\ pc' = "returned"
    /\ UNCHANGED <<tmpVars, scanVars, ret, pixVars, planVars, sampVars>>

map ==
    /\ pc = "idle"
    /\ \E r1 \in StratRasters, b1 \in MapBandArgs, n1 \in MapCountArgs,
          more \in MoreTuples, driver_options \in DriverOptions :
          LET args == <<MapTuple(r1, b1, n1)>> \o more
              r == map_call(args, driver_options)
          IN  /\ call' = [fn |-> "map", args |-> args,
                          driver_options |-> driver_options]
              /\ err' = r.err
              /\ mkdtemp' = r.mkdtemp
              /\ native' = r.native
    /\ pc' = "returned"
    /\ UNCHANGED <<tmpVars, scanVars, ret, pixVars, planVars, sampVars>>

\* strat is called with the arguments c
DoStrat(c) ==
    LET r == strat_call(c)
    IN  /\ call' = [fn |-> "strat", arg |-> c]
        /\ err' = r.err
        /\ mkdtemp' = r.mkdtemp
        /\ native' = r.native

\* calls that vary everything but the weights and the access arguments
stratGeneral ==
    /\ pc = "idle"
    /\ \E t \in StratTargets, n \in {0, 5}, win \in StratWindows,
          al \in {"prop", "equal", "optim", "Equal"}, mr \in MRasters,
          me \in {"random", "Queinnec", "queinnec"}, md \in StratMindists,
          ex \in {<<NoVector, FALSE>>, <<Some({1, 2}), TRUE>>},
          ac \in {NoAccess, Some(Access(<<"access">>, Some("access"), Some(90), Some(300)))} :
          DoStrat(StratCall(t, n, 3, win, al, NoWeights, mr, me, md, ex[1], ex[2], ac))
    /\ pc' = "returned"
    /\ UNCHANGED <<tmpVars, scanVars, ret, pixVars, planVars, sampVars>>

\* calls that vary the access arguments
stratAccess ==
    /\ pc = "idle"
    /\ \E t \in StratTargets, ex \in StratExisting, f \in BOOLEAN,
          ac \in StratAccess :
          DoStrat(StratCall(t, 5, 3, <<3, 3>>, "prop", NoWeights,
                            <<NoRaster, NoBand>>, "random", NoNum, ex, f, ac))
    /\ pc' = "returned"
    /\ UNCHANGED <<tmpVars, scanVars, ret, pixVars, planVars, sampVars>>

\* calls with manual allocation
stratManual ==
    /\ pc = "idle"
    /\ \E t \in {x \in StratTargets : x.band.t = "str"}, ns \in StratNumStrata,
          win \in {<<3, 3>>, <<4, 3>>}, md \in {NoNum, Some(-1)},
          w \in {NoWeights} \cup {Some(l) : l \in WeightLists} :
          DoStrat(StratCall(t, 5, ns, win, "manual", w, <<NoRaster, NoBand>>,
                            "random", md, NoVector, FALSE, NoAccess))
    /\ pc' = "returned"
    /\ UNCHANGED <<tmpVars, scanVars, ret, pixVars, planVars, sampVars>>

strat == stratGeneral \/ stratAccess \/ stratManual

\* the caller goes on to its next call
Return ==
    /\ pc = "returned"
    /\ pc' = "idle"
    /\ call' = [fn |-> ""]
    /\ err' = NoError
    /\ mkdtemp' = 0
    /\ native' = NoNative
    /\ ret' = NoReturn
    /\ UNCHANGED <<tmpVars, scanVars, pixVars, planVars, sampVars>>

ApiInit ==
    /\ pc = "idle"
    /\ call = [fn |-> ""]
    /\ err = NoError
    /\ mkdtemp = 0
    /\ native = NoNative
    /\ ret = NoReturn

PixInit ==
    /\ cop = ""
    /\ cval = 0
    /\ cbreaks = <<>>
    /\ cstrat = 0
    /\ cdims = <<>>
    /\ ccounts = <<>>
    /\ cmap = <<>>

NoPlan == [op |-> ""]

PlanInit == alloc = NoPlan

NoJob == [fn |-> ""]
NoReport ==
    [requested |-> 0, achieved |-> 0, shortfall |-> <<>>,
     err |-> NoError, printed |-> FALSE, returned |-> {}]

SampInit ==
    /\ job = NoJob
    /\ plan = [targets |-> <<>>, counts |-> <<>>, shortfall |-> <<>>]
    /\ stratum = 0
    /\ sel = "IDLE"
    /\ samples = {}
    /\ report = NoReport

(***************************************************************************)
(* Temporary directories and the handles that own them                     *)
(* (src/sgs/utils/raster.py, breaks.py, quantiles.py,                      *)
(*  map_stratifications.py, strat.py)                                      *)
(***************************************************************************)
\* number of raster handles, and of temporary directories made
MaxHandles == 3
MaxDirs == 3

HandleIds == 1..MaxHandles

\* no directory: temp_dir not set, get_temp_dir() == ""
NoDir == 0

\* a SpatialRaster that does not exist (not yet constructed, or released)
NoHandle ==
    [live |-> FALSE, have_temp_dir |-> FALSE, temp_dir |-> NoDir,
     cpp_temp_dir |-> NoDir]

\* raster.py lines 154-157, 206-224: a SpatialRaster as constructed;
\* have_temp_dir is the class default False, and the cpp_raster carries
\* the temp directory the native call gave it
SpatialRaster(cpp_temp_dir) ==
    [live |-> TRUE, have_temp_dir |-> FALSE, temp_dir |-> NoDir,
     cpp_temp_dir |-> cpp_temp_dir]

\* tempfile.mkdtemp(): the directory made next
NextDir == made + 1

\* breaks.py lines 141-157 and quantiles.py lines 203-220: the handles
\* after the call made out from the native result (ok), or after the native
\* call raised
stratify_temp_dir(hs, out, temp_dir, ok) ==
    IF ok
    THEN [hs EXCEPT ![out] = [SpatialRaster(NoDir) EXCEPT
                                 !.have_temp_dir = TRUE,
                                 !.temp_dir = temp_dir]]
    ELSE hs

\* map_stratifications.py lines 175-196: the first raster of the first
\* tuple takes the directory before map_cpp runs and hands it to the
\* cpp_raster of the result afterwards
map_temp_dir(hs, first, out, temp_dir, ok) ==
    LET taken == [hs EXCEPT ![first].have_temp_dir = TRUE,
                            ![first].temp_dir = temp_dir]
    IN  IF ok
        THEN [taken EXCEPT ![first].have_temp_dir = FALSE,
                           ![out] = SpatialRaster(temp_dir)]
        ELSE taken

\* strat.py lines 227-230: the temp directory of strat_rast's cpp_raster is
\* used, and made first when there is none
strat_temp_dir(hs, h, temp_dir) ==
    IF hs[h].cpp_temp_dir = NoDir
    THEN [hs EXCEPT ![h].cpp_temp_dir = temp_dir]
    ELSE hs

\* raster.py lines 226-228: __del__ removes temp_dir when have_temp_dir is
\* set; the cpp_raster released with the handle removes the directory that
\* was set on it
del_removed(h) ==
    (IF h.have_temp_dir THEN {h.temp_dir} ELSE {})
        \cup (IF h.cpp_temp_dir # NoDir THEN {h.cpp_temp_dir} ELSE {})

TmpInit ==
    /\ handles = [h \in HandleIds |-> NoHandle]
    /\ dirs = {}
    /\ made = 0

\* a raster is opened from a file
tmpOpen ==
    /\ \E h \in HandleIds :
          /\ ~handles[h].live
          /\ handles' = [handles EXCEPT ![h] = SpatialRaster(NoDir)]
    /\ UNCHANGED <<dirs, made, scanVars, apiVars, pixVars, planVars, sampVars>>

\* breaks or quantiles (the same statements in both) is called on rast and
\* its result, if any, is kept as out
tmpStratify ==
    /\ made < MaxDirs
    /\ \E rast \in HandleIds, out \in HandleIds, ok \in BOOLEAN :
          /\ handles[rast].live
          /\ ~handles[out].live
          /\ handles' = stratify_temp_dir(handles, out, NextDir, ok)
    /\ dirs' = dirs \cup {NextDir}
    /\ made' = NextDir
    /\ UNCHANGED <<scanVars, apiVars, pixVars, planVars, sampVars>>

\* map is called with first as the raster of its first tuple
tmpMap ==
    /\ made < MaxDirs
    /\ \E first \in HandleIds, out \in HandleIds, ok \in BOOLEAN :
          /\ handles[first].live
          /\ ~handles[out].live
          /\ handles' = map_temp_dir(handles, first, out, NextDir, ok)
    /\ dirs' = dirs \cup {NextDir}
    /\ made' = NextDir
    /\ UNCHANGED <<scanVars, apiVars, pixVars, planVars, sampVars>>

\* strat is called on strat_rast; whether strat_cpp then raises changes
\* nothing about the directory
tmpStrat ==
    /\ \E strat_rast \in HandleIds :
          /\ handles[strat_rast].live
          /\ handles[strat_rast].cpp_temp_dir = NoDir => made < MaxDirs
          /\ handles' = strat_temp_dir(handles, strat_rast, NextDir)
          /\ IF handles[strat_rast].cpp_temp_dir = NoDir
             THEN dirs' = dirs \cup {NextDir} /\ made' = NextDir
             ELSE UNCHANGED <<dirs, made>>
    /\ UNCHANGED <<scanVars, apiVars, pixVars, planVars, sampVars>>

\* the last reference to a handle goes
tmpDel ==
    /\ \E h \in HandleIds :
          /\ handles[h].live
          /\ dirs' = dirs \ del_removed(handles[h])
          /\ handles' = [handles EXCEPT ![h] = NoHandle]
    /\ UNCHANGED <<made, scanVars, apiVars, pixVars, planVars, sampVars>>

TmpNext == tmpOpen \/ tmpStratify \/ tmpMap \/ tmpStrat \/ tmpDel

(***************************************************************************)
(* The block-parallel scan of an out-of-core band (spec.md 4.2, 5): a      *)
(* bounded pool of workers summarises the row-blocks, the partial          *)
(* summaries are merged into the per-band accumulator, the breakpoints are *)
(* finalized from the accumulator, and the blocks are classified against   *)
(* them.  The scan is native code that is not part of src/.                *)
(***************************************************************************)
MaxWorkers == 2
MaxBlocks == 3

WorkerIds == 1..MaxWorkers
BlockIds == 1..MaxBlocks

NoBlock == 0

\* the blocks and the workers of the scan in progress
ScanBlocks == 1..scan.blocks
ScanWorkers == 1..scan.threads

\* a barrier that waits for one partial summary only
AllMerged_some == \E b \in ScanBlocks : accum[b] >= 1

\* the reduce phase is complete: every block's partial summary is in the
\* accumulator
AllMerged == \A b \in ScanBlocks : accum[b] >= 1

ScanInit ==
    /\ scan = [phase |-> "idle", blocks |-> 0, threads |-> 0]
    /\ holds = [w \in WorkerIds |-> NoBlock]
    /\ block = [b \in BlockIds |-> "unread"]
    /\ accum = [b \in BlockIds |-> 0]
    /\ final = FALSE
    /\ classified = [b \in BlockIds |-> "no"]

\* quantiles_cpp(..., threads, eps) on a large raster: the scan of a band
\* starts with a worker count >= 1
scanStart ==
    /\ scan.phase = "idle"
    /\ pc = "idle" /\ sel = "IDLE"
    /\ \E n \in BlockIds, t \in WorkerIds :
         scan' = [phase |-> "map", blocks |-> n, threads |-> t]
    /\ UNCHANGED <<holds, block, accum, final, classified>>
    /\ UNCHANGED <<apiVars, pixVars, planVars, sampVars, tmpVars>>

\* map phase: an idle worker takes a block nobody has taken
takeBlock ==
    /\ scan.phase = "map"
    /\ \E w \in ScanWorkers, b \in ScanBlocks :
         /\ holds[w] = NoBlock
         /\ block[b] = "unread"
         /\ holds' = [holds EXCEPT ![w] = b]
         /\ block' = [block EXCEPT ![b] = "taken"]
    /\ UNCHANGED <<scan, accum, final, classified>>
    /\ UNCHANGED <<apiVars, pixVars, planVars, sampVars, tmpVars>>

\* map phase: the worker has read its block and built the partial summary
summarise ==
    /\ scan.phase = "map"
    /\ \E w \in ScanWorkers :
         /\ holds[w] # NoBlock
         /\ block[holds[w]] = "taken"
         /\ block' = [block EXCEPT ![holds[w]] = "summarised"]
    /\ UNCHANGED <<scan, holds, accum, final, classified>>
    /\ UNCHANGED <<apiVars, pixVars, planVars, sampVars, tmpVars>>

\* reduce phase: the worker merges its partial summary into the per-band
\* accumulator and is idle again
merge ==
    /\ scan.phase = "map"
    /\ \E w \in ScanWorkers :
         /\ holds[w] # NoBlock
         /\ block[holds[w]] = "summarised"
         /\ accum' = [accum EXCEPT ![holds[w]] = @ + 1]
         /\ block' = [block EXCEPT ![holds[w]] = "merged"]
         /\ holds' = [holds EXCEPT ![w] = NoBlock]
    /\ UNCHANGED <<scan, final, classified>>
    /\ UNCHANGED <<apiVars, pixVars, planVars, sampVars, tmpVars>>

\* the barrier: the breakpoints are finalized from the merged accumulator
finalize ==
    /\ scan.phase = "map"
    /\ AllMerged
    /\ final' = TRUE
    /\ scan' = [scan EXCEPT !.phase = "classify"]
    /\ UNCHANGED <<holds, block, accum, classified>>
    /\ UNCHANGED <<apiVars, pixVars, planVars, sampVars, tmpVars>>

\* each block is classified independently against the breakpoints; what is
\* recorded is whether the breakpoints were final when it was classified
classifyBlock ==
    /\ scan.phase = "classify"
    /\ \E w \in ScanWorkers, b \in ScanBlocks :
         /\ classified[b] = "no"
         /\ classified' = [classified EXCEPT
                             ![b] = IF final THEN "final" ELSE "early"]
    /\ UNCHANGED <<scan, holds, block, accum, final>>
    /\ UNCHANGED <<apiVars, pixVars, planVars, sampVars, tmpVars>>

\* the scan of the band is over
scanEnd ==
    /\ scan.phase = "classify"
    /\ \A b \in ScanBlocks : classified[b] # "no"
    /\ scan' = [phase |-> "idle", blocks |-> 0, threads |-> 0]
    /\ holds' = [w \in WorkerIds |-> NoBlock]
    /\ block' = [b \in BlockIds |-> "unread"]
    /\ accum' = [b \in BlockIds |-> 0]
    /\ final' = FALSE
    /\ classified' = [b \in BlockIds |-> "no"]
    /\ UNCHANGED <<apiVars, pixVars, planVars, sampVars, tmpVars>>

ScanNext ==
    \/ scanStart \/ takeBlock \/ summarise \/ merge
    \/ finalize \/ classifyBlock \/ scanEnd

Init ==
    ApiInit /\ PixInit /\ PlanInit /\ SampInit /\ TmpInit /\ ScanInit

Next == breaks \/ quantiles \/ map \/ strat \/ Return

Spec == Init /\ [][Next]_vars

(***************************************************************************)
(* The sgspy snapshot (src/sgspy): stratification provenance               *)
(***************************************************************************)
\* A stratification raster of the sgspy snapshot: the raster, whether it is
\* the return value of an sgspy.stratify function (is_strat_rast), and the
\* strata_count of each StratRasterBandMetadata of srast_metadata_info.
StratRaster(rast, is_strat_rast, srast_metadata_info) ==
    [rast |-> rast, is_strat_rast |-> is_strat_rast,
     srast_metadata_info |-> srast_metadata_info]

IndexError == [type |-> "IndexError", msg |-> "list index out of range"]

\* l[i] of a Python list: 0-based, a negative index counts from the end
PyIndex(l, i) ==
    IF i \in 0..(Len(l) - 1) THEN [err |-> NoError, v |-> l[i + 1]]
    ELSE IF i \in (-Len(l))..(-1) THEN [err |-> NoError, v |-> l[Len(l) + i + 1]]
    ELSE [err |-> IndexError, v |-> 0]

\* sgspy strat.py lines 249-262: band as a 0-based index; band is optional
\* here, and the message of the int branch reads the undefined name "raster"
sgspy_strat_band(strat_rast, band) ==
    IF band.none
    THEN IF Len(strat_rast.bands) > 1
         THEN [err |-> ValueError("'band' parameter must be given if there is more than 1 band in the strat_raster"),
               band |-> 0]
         ELSE [err |-> NoError, band |-> 0]
    ELSE IF band.v.t = "str"
    THEN IF band.v.s \notin BandNameSet(strat_rast)
         THEN [err |-> ValueError("band not in given raster."), band |-> 0]
         ELSE [err |-> NoError, band |-> band_name_dict(strat_rast, band.v.s)]
    ELSE IF band.v.i >= Len(strat_rast.bands)
         THEN [err |-> NameError("name 'raster' is not defined"), band |-> band.v.i]
         ELSE [err |-> NoError, band |-> band.v.i]

\* sgspy_strat_num_strata taking the num_strata argument whenever it is
\* given
sgspy_strat_num_strata_argument_first(srast, band, num_strata) ==
    IF ~num_strata.none THEN [err |-> NoError, v |-> num_strata.v]
    ELSE PyIndex(srast.srast_metadata_info, band)

\* sgspy strat.py lines 264-265: the stratum count recorded for the band
\* replaces the num_strata argument when the raster carries provenance
sgspy_strat_num_strata(srast, band, num_strata) ==
    IF srast.is_strat_rast THEN PyIndex(srast.srast_metadata_info, band)
    ELSE [err |-> NoError, v |-> num_strata.v]

\* sgspy strat.py lines 276-284
sgspy_manual_weights_check(weights, num_strata) ==
    IF weights.none
    THEN ValueError("for manual allocation, weights must be given.")
    ELSE IF weights_sum_is_not_one(weights.v)
    THEN ValueError("weights must sum to 1.")
    ELSE IF Len(weights.v) # num_strata
    THEN ValueError("length of 'weights' must be the same as the number of strata, which is {}")
    ELSE NoError

\* sgspy strat.py lines 180-383: what one call of strat does up to
\* strat_cpp, for arguments of the declared types (the type tests of lines
\* 180-241 pass) and rasters that are not closed (lines 243-247)
sgspy_strat_call(c) ==
    IF ~c.srast.is_strat_rast /\ c.num_strata.none
    THEN Raised(ValueError("if 'strat_rast' parameter is not the return value of an sgspy.stratify function, 'num_strata' is a required parameter."))
    ELSE
    LET b == sgspy_strat_band(c.srast.rast, c.band)
        n == sgspy_strat_num_strata(c.srast, b.band, c.num_strata)
        w == sgspy_manual_weights_check(c.weights, n.v)
        m == strat_mrast(c.allocation, c.mrast, c.mrast_band, b.band)
        a == strat_access(c.access)
        mindist == strat_mindist(c.mindist)
    IN  IF b.err # NoError THEN Raised(b.err)
        ELSE IF n.err # NoError THEN Raised(n.err)
        ELSE IF c.num_samples < 1
        THEN Raised(ValueError("num_samples must be greater than 0"))
        ELSE IF c.method \notin {"random", "Queinnec"}
        THEN Raised(ValueError("method must be either 'random' or 'Queinnec'."))
        ELSE IF c.allocation \notin {"prop", "optim", "equal", "manual"}
        THEN Raised(ValueError("method must be one of 'prop', 'optim', 'equal', or 'manual'."))
        ELSE IF c.allocation = "manual" /\ w # NoError THEN Raised(w)
        ELSE IF m.err # NoError THEN Raised(m.err)
        ELSE IF c.wrow \notin {3, 5, 7}
        THEN Raised(ValueError("wrow must be one of 3, 5, 7."))
        ELSE IF c.wcol \notin {3, 5, 7}
        THEN Raised(ValueError("wcol must be one of 3, 5, 7."))
        ELSE IF a.err # NoError THEN Raised(a.err)
        ELSE IF mindist < 0
        THEN Raised(ValueError("mindist must be greater than or equal to 0"))
        ELSE [err |-> NoError,
              mkdtemp |-> IF c.has_temp_dir THEN 0 ELSE 1,
              native |-> [fn |-> "strat_cpp",
                          band |-> b.band,
                          num_samples |-> c.num_samples,
                          num_strata |-> n.v,
                          allocation |-> c.allocation,
                          weights |-> strat_weights(c.allocation, c.weights),
                          mrast_given |-> m.given,
                          mrast_band |-> m.mrast_band,
                          method |-> c.method,
                          wrow |-> c.wrow,
                          wcol |-> c.wcol,
                          mindist |-> mindist,
                          existing |-> strat_existing(c.existing),
                          force |-> c.force,
                          access_given |-> a.given,
                          layer_name |-> a.layer_name,
                          buff_inner |-> a.buff_inner,
                          buff_outer |-> a.buff_outer]]

\* --- the calls of sgspy strat a caller makes ---
\* stratification rasters with and without provenance
SgspyStratRasters ==
    LET one == Raster(<<"strat_zq90">>, 1, 1, <<4>>)
        two == Raster(<<"strat_zq90", "strat_pzabove2">>, 1, 1, <<4, 4>>)
    IN  {StratRaster(one, p, m) : p \in BOOLEAN, m \in {<<2>>, <<3>>}}
        \cup {StratRaster(two, p, m) : p \in BOOLEAN, m \in {<<2, 3>>, <<3, 2>>}}

SgspyBands ==
    {NoBand, Some(IntBand(0)), Some(IntBand(1)), Some(IntBand(2)),
     Some(IntBand(-1)), Some(IntBand(-3)), Some(StrBand("strat_pzabove2")),
     Some(StrBand("nope"))}

SgspyNumStrata == {NoNum, Some(2), Some(3)}

\* allocation, weights: manual weights for 2 and for 3 strata
SgspyAllocations ==
    {<<"prop", NoWeights>>, <<"Prop", NoWeights>>, <<"manual", NoWeights>>}
    \cup {<<"manual", Some([i \in 1..n |->
                               IF i < n THEN Weight(1, 0)
                               ELSE Weight(WeightUnits - n + 1, 0)])>> :
             n \in {2, 3}}

sgspyStrat ==
    /\ pc = "idle"
    /\ \E srast \in SgspyStratRasters, band \in SgspyBands,
          num_strata \in SgspyNumStrata, num_samples \in {0, 5},
          al \in SgspyAllocations, method \in {"random", "Queinnec"},
          win \in {<<3, 3>>, <<4, 3>>}, mindist \in {NoNum, Some(-1)},
          has_temp_dir \in BOOLEAN :
          \E c \in {[srast |-> srast, has_temp_dir |-> has_temp_dir,
                     band |-> band, num_samples |-> num_samples,
                     num_strata |-> num_strata, wrow |-> win[1],
                     wcol |-> win[2], allocation |-> al[1],
                     weights |-> al[2], mrast |-> NoRaster,
                     mrast_band |-> NoBand, method |-> method,
                     mindist |-> mindist, existing |-> NoVector,
                     force |-> FALSE, access |-> NoAccess]} :
             \E r \in {sgspy_strat_call(c)} :
                /\ call' = [fn |-> "sgspy.strat", arg |-> c]
                /\ err' = r.err
                /\ mkdtemp' = r.mkdtemp
                /\ native' = r.native
    /\ pc' = "returned"
    /\ UNCHANGED <<tmpVars, scanVars, ret, pixVars, planVars, sampVars>>

\* --- map and quantiles of the sgspy snapshot ---
SyntaxError(m) == [type |-> "SyntaxError", msg |-> m]

\* what a call that raised leaves behind: no temp directory, no native
\* call, no raster
PyRaised(e) == [err |-> e, mkdtemp |-> 0, native |-> NoNative, ret |-> NoReturn]

\* sgspy map_stratifications.py as a module: line 155,
\* "if !raster.is_strat_rast and num_strata is None:", is no Python
\* statement (nor is the "for" of line 293, which lacks its colon), so the
\* file does not compile and importing it raises SyntaxError
sgspy_map_module == SyntaxError("invalid syntax (map_stratifications.py, line 155)")

\* sgspy map_stratifications.py lines 120-305: what a call of map does; the
\* module that defines map cannot be imported, so the call ends in the
\* SyntaxError of the import whatever its tuples are
sgspy_map_call(args) == PyRaised(sgspy_map_module)

\* sgspy quantiles.py as a module: line 339,
\* metadata.append("{} <= {} < {}".(vals[i - 1], name, vals[i])), is no
\* Python expression (and the call of line 348 is not closed), so the file
\* does not compile and importing it raises SyntaxError
sgspy_quantiles_module == SyntaxError("invalid syntax (quantiles.py, line 339)")

\* sgspy quantiles.py lines 127-352: what a call of quantiles does
sgspy_quantiles_call(rast, num_strata, mapped) == PyRaised(sgspy_quantiles_module)

\* the tuples handed to sgspy map: a raster, its bands and their counts
SgspyMapArgs ==
    LET two == Raster(<<"strat_zq90", "strat_pzabove2">>, 1, 1, <<4, 4>>)
        one == Raster(<<"strat_zsd">>, 1, 1, <<4>>)
    IN  {<<MapTuple(two, b, n)>> \o more :
            b \in {List(<<IntBand(0), IntBand(1)>>),
                   List(<<IntBand(0), StrBand("strat_pzabove2")>>),
                   Single(StrBand("strat_zq90")), Single(StrBand("nope"))},
            n \in {List(<<5, 5>>), List(<<2, 3>>), Single(5), Single(50000)},
            more \in {<<>>, <<MapTuple(one, Single(IntBand(0)), Single(25))>>,
                      <<MapTuple(one, Single(IntBand(0)), Single(50000))>>}}

sgspyMap ==
    /\ pc = "idle"
    /\ \E args \in SgspyMapArgs :
          \E r \in {sgspy_map_call(args)} :
             /\ call' = [fn |-> "sgspy.map", args |-> args]
             /\ err' = r.err
             /\ mkdtemp' = r.mkdtemp
             /\ native' = r.native
             /\ ret' = r.ret
    /\ pc' = "returned"
    /\ UNCHANGED <<tmpVars, scanVars, pixVars, planVars, sampVars>>

sgspyQuantiles ==
    /\ pc = "idle"
    /\ \E rast \in InputRasters, a \in QuantArgs, mapped \in BOOLEAN :
          /\ WellFormedQuant(a)
          /\ \E r \in {sgspy_quantiles_call(rast, a, mapped)} :
                /\ call' = [fn |-> "sgspy.quantiles", rast |-> rast,
                            arg |-> a, map |-> mapped]
                /\ err' = r.err
                /\ mkdtemp' = r.mkdtemp
                /\ native' = r.native
                /\ ret' = r.ret
    /\ pc' = "returned"
    /\ UNCHANGED <<tmpVars, scanVars, pixVars, planVars, sampVars>>

PyNext == sgspyStrat \/ sgspyMap \/ sgspyQuantiles \/ Return

PySpec == Init /\ [][PyNext]_vars

TmpSpec == Init /\ [][TmpNext]_vars

(***************************************************************************)
(* Large rasters: the calls of breaks, quantiles and map on rasters whose  *)
(* bands are around a gigabyte                                             *)
(***************************************************************************)
\* largest number of bands of a raster
MaxBands == 9

LargeBandNames == <<"b1", "b2", "b3", "b4", "b5", "b6", "b7", "b8", "b9", "b10", "b11">>

\* the pixel sizes of the n bands of a raster: one byte each, or two bytes
\* for the first band, or four for the last
LargeTypeSizes(n) ==
    { [i \in 1..n |-> 1],
      [i \in 1..n |-> IF i = 1 THEN 2 ELSE 1],
      [i \in 1..n |-> IF i = n THEN 4 ELSE 1] }

\* rasters of 32 x 1024 rows: one-byte bands of half a gigabyte at
\* 16 x 1024 columns, and somewhat less at 15 x 1024
LargeRasters ==
    UNION {{Raster(SubSeq(LargeBandNames, 1, n), 32, w, ts) :
               w \in {15, 16}, ts \in LargeTypeSizes(n)} :
           n \in 1..MaxBands}

\* breaks with one list of one breakpoint for every band
breaksLarge ==
    /\ pc = "idle"
    /\ \E rast \in LargeRasters, to_map \in BOOLEAN :
          \E b \in {[form |-> "lists", keys |-> <<>>,
                     lens |-> [i \in 1..band_count(rast) |-> 1]]} :
             \E r \in {breaks_call(rast, b, to_map, 8, "None")} :
                /\ call' = [fn |-> "breaks", rast |-> rast, arg |-> b,
                            map |-> to_map, thread_count |-> 8,
                            driver_options |-> "None"]
                /\ err' = r.err
                /\ mkdtemp' = r.mkdtemp
                /\ native' = r.native
    /\ pc' = "returned"
    /\ UNCHANGED <<ret, pixVars, planVars, sampVars, tmpVars, scanVars>>

\* quantiles with num_strata 2 for every band, or for the named bands
quantilesLarge ==
    /\ pc = "idle"
    /\ \E rast \in LargeRasters, to_map \in BOOLEAN, k \in 1..MaxBands :
          /\ k <= band_count(rast)
          /\ \E a \in {[form |-> "list", k |-> 0, keys |-> <<>>,
                         items |-> [i \in 1..band_count(rast) |-> IntItem(2)]],
                        [form |-> "dict", k |-> 0,
                         keys |-> SubSeq(rast.bands, 1, k),
                         items |-> [i \in 1..k |-> IntItem(2)]]} :
                \E r \in {quantiles_call(rast, a, to_map, 8, "None")} :
                   /\ call' = [fn |-> "quantiles", rast |-> rast, arg |-> a,
                               map |-> to_map, thread_count |-> 8,
                               driver_options |-> "None",
                               arg_after |-> quantiles_arg_after(rast, a)]
                   /\ err' = r.err
                   /\ mkdtemp' = r.mkdtemp
                   /\ native' = r.native
    /\ pc' = "returned"
    /\ UNCHANGED <<ret, pixVars, planVars, sampVars, tmpVars, scanVars>>

\* map with one tuple: the first k bands as a list, or band k alone by
\* index or by name
mapLarge ==
    /\ pc = "idle"
    /\ \E rast \in LargeRasters, k \in 1..MaxBands :
          /\ k <= band_count(rast)
          /\ \E t \in {MapTuple(rast, List([i \in 1..k |-> IntBand(i - 1)]),
                                 List([i \in 1..k |-> 2])),
                        MapTuple(rast, Single(IntBand(k - 1)), Single(2)),
                        MapTuple(rast, Single(StrBand(rast.bands[k])), Single(2))} :
                \E r \in {map_call(<<t>>, "None")} :
                   /\ call' = [fn |-> "map", args |-> <<t>>,
                               driver_options |-> "None"]
                   /\ err' = r.err
                   /\ mkdtemp' = r.mkdtemp
                   /\ native' = r.native
    /\ pc' = "returned"
    /\ UNCHANGED <<ret, pixVars, planVars, sampVars, tmpVars, scanVars>>

SizeNext == breaksLarge \/ quantilesLarge \/ mapLarge \/ Return

SizeSpec == Init /\ [][SizeNext]_vars

ScanSpec == Init /\ [][ScanNext]_vars

(***************************************************************************)
(* Properties of the entry points                                          *)
(***************************************************************************)
Returned(fn) == pc = "returned" /\ call.fn = fn

\* whether the product of the positive integers cs[i..] is above limit:
\* c * P > L  iff  P > L \div c
RECURSIVE ProductAbove(_, _, _)
ProductAbove(cs, i, limit) ==
    IF i > Len(cs) THEN 1 > limit
    ELSE ProductAbove(cs, i + 1, limit \div cs[i])

\* the same for the counts lens[i] + 1, lens[i] <= MAX_STRATA_VAL
RECURSIVE CountsAbove(_, _, _)
CountsAbove(lens, i, limit) ==
    IF i > Len(lens) THEN 1 > limit
    ELSE IF lens[i] >= MAX_STRATA_VAL THEN TRUE
    ELSE CountsAbove(lens, i + 1, limit \div (lens[i] + 1))

RECURSIVE Flatten(_)
Flatten(ll) == IF ll = <<>> THEN <<>> ELSE ll[1] \o Flatten(Tail(ll))

\* the stratum counts the tuples of a map call declare, in order
DeclaredCounts(args) == Flatten([i \in 1..Len(args) |-> args[i].num_stratum.items])

NegativeCount(cs) == Cardinality({i \in 1..Len(cs) : cs[i] < 0})

\* the product of the declared counts is above MAX_STRATA_VAL
DeclaredProductExceeds(args) ==
    LET cs == DeclaredCounts(args)
    IN  /\ \A i \in 1..Len(cs) : cs[i] # 0
        /\ NegativeCount(cs) % 2 = 0
        /\ ProductAbove([i \in 1..Len(cs) |-> Abs(cs[i])], 1, MAX_STRATA_VAL)

MapOverflowError ==
    ValueError("the mapped strata will cause an overflow error because the max strata number is too large.")

\* the errors map raises while it reads its tuples (lines 91-147)
MapArgumentErrors ==
    { ValueError("height is not the same across all rasters."),
      ValueError("width is not the same across all rasters."),
      ValueError("if bands and num_stratum arguments are lists, they must have the same length."),
      TypeError("if one of bands and num_stratum is list, the other one must be a list of the same length."),
      ValueError("bands list cannot have more bands than raster contains."),
      ValueError("band is out of range."),
      ValueError("band is not a band within the raster.") }

\* C6 as stated: map raises OverflowError whenever the product of all
\* declared stratum counts exceeds 2,147,483,647, before any temp directory
\* is created and before the native call.
C6_MapRaisesOverflowError ==
    (Returned("map") /\ DeclaredProductExceeds(call.args))
        => /\ err.type = "OverflowError"
           /\ mkdtemp = 0
           /\ native.fn = ""

\* C6 amended: whenever the product of all declared stratum counts exceeds
\* 2,147,483,647, map raises, creates no temp directory and does not reach
\* map_cpp; the exception is the ValueError of the overflow check unless a
\* check of the tuples (a ValueError or TypeError) failed first.
C6_MapOverflowRejected ==
    (Returned("map") /\ DeclaredProductExceeds(call.args))
        => /\ err = MapOverflowError \/ err \in MapArgumentErrors
           /\ mkdtemp = 0
           /\ native.fn = ""

\* map was called with counts 50,000 x 50,000 x 1,000 and raised the
\* overflow check's ValueError
C6_Witness ==
    /\ Returned("map")
    /\ DeclaredCounts(call.args) = <<50000, 50000, 1000>>
    /\ err = MapOverflowError

BreaksArgumentErrors ==
    { ValueError("breaks list must contain at least one element."),
      ValueError("number of lists of breaks must be equal to the number of raster bands."),
      ValueError("if breaks is a single list, raster must have a single band"),
      ValueError("breaks dict key must be a valid band name") }

OverflowErrors ==
    { ValueError("the mapped strata will cause an overflow error because the max strata number is too large."),
      ValueError("one of the breaks given will cause an integer overflow error because the max strata number is too large."),
      ValueError("one of the quantiles given will cause an integer overflow error because the max strata number is too large.") }

\* the errors quantiles raises while it reads num_strata (lines 93-165):
\* every error but those of the later checks
QuantilesLaterErrors ==
    OverflowErrors
    \cup { ValueError("number of threads can't be less than 1."),
           ValueError("the key for all key/value pairs in the driver_options dict must be a string.") }

\* the number of breakpoints a quantiles item stands for: K - 1 for an int
\* K, and for a list its length less one for a 0.0 and one for a 1.0 in it
ItemBreakpoints(item) ==
    IF item.t = "int" THEN (IF item.k > 1 THEN item.k - 1 ELSE 0)
    ELSE Len(item.vals)
           - (IF \E i \in 1..Len(item.vals) : item.vals[i] = 0 THEN 1 ELSE 0)
           - (IF \E i \in 1..Len(item.vals) : item.vals[i] = 10 THEN 1 ELSE 0)

\* the number of breakpoints of each band a breaks or quantiles call selects
SelectedBreakpoints ==
    IF call.fn = "breaks" THEN call.arg.lens
    ELSE IF call.arg.form = "int" THEN <<ItemBreakpoints(IntItem(call.arg.k))>>
    ELSE IF call.arg.form = "list" /\ call.arg.items # <<>>
            /\ call.arg.items[1].t = "float"
    THEN <<ItemBreakpoints(ListItem(FloatVals(call.arg.items)))>>
    ELSE [i \in 1..Len(call.arg.items) |-> ItemBreakpoints(call.arg.items[i])]

\* the call's arguments passed the checks that come before the overflow check
PassedArgumentChecks ==
    IF call.fn = "breaks" THEN err \notin BreaksArgumentErrors
    ELSE err = NoError \/ err \in QuantilesLaterErrors

\* C7: breaks and quantiles called with map=True (and arguments that pass
\* the checks before it) raise an overflow error exactly when the product
\* over the selected bands of (number of breakpoints + 1) exceeds
\* 2,147,483,647, and then no temp directory was created and the native
\* stratifier was not reached.
C7_MapOverflowExactly ==
    ((Returned("breaks") \/ Returned("quantiles")) /\ call.map
      /\ PassedArgumentChecks)
        => /\ err \in OverflowErrors
               <=> CountsAbove(SelectedBreakpoints, 1, MAX_STRATA_VAL)
           /\ err \in OverflowErrors => mkdtemp = 0 /\ native.fn = ""

\* breaks was called with map=True and two lists of 46340 breakpoints
\* (46341 x 46341 strata) and raised the overflow error
C7_Witness ==
    /\ Returned("breaks")
    /\ call.map
    /\ call.arg.lens = <<46340, 46340>>
    /\ err \in OverflowErrors

\* the three conditions of C8, read off the argument
BreaksListCountMismatch == Len(call.arg.lens) # band_count(call.rast)
BreaksNamesMissingBand ==
    \E i \in 1..Len(call.arg.keys) : call.arg.keys[i] \notin BandNameSet(call.rast)
BreaksHasEmptyList == \E i \in 1..Len(call.arg.lens) : call.arg.lens[i] = 0

\* C8 as stated: in every form of the breaks argument, breaks raises
\* ValueError without calling the native stratifier whenever the number of
\* breakpoint lists differs from the number of raster bands, a named band
\* does not exist, or a breakpoint list is empty.
C8_BreaksRejectsEveryForm ==
    (Returned("breaks")
      /\ (BreaksListCountMismatch \/ BreaksNamesMissingBand \/ BreaksHasEmptyList))
        => err.type = "ValueError" /\ native.fn = ""

\* what the checks of lines 78-101 reject
BreaksRejected ==
    \/ call.arg.form = "list"
         /\ (call.arg.lens[1] = 0 \/ band_count(call.rast) # 1)
    \/ call.arg.form = "lists" /\ BreaksListCountMismatch
    \/ call.arg.form = "dict" /\ BreaksNamesMissingBand

\* C8 amended: breaks raises ValueError without calling the native
\* stratifier (and without creating a temp directory) whenever the argument
\* is an empty list, is a single list and the raster does not have exactly
\* one band, is a list of lists whose number differs from the number of
\* raster bands, or is a dict with a key that names no band; a dict naming
\* fewer bands than the raster has, and an empty list inside a list of lists
\* or a dict, are not rejected by these checks.
C8_BreaksValidation ==
    Returned("breaks")
        => /\ BreaksRejected <=> err \in BreaksArgumentErrors
           /\ BreaksRejected
                => err.type = "ValueError" /\ native.fn = "" /\ mkdtemp = 0

\* breaks was called with two lists on a single-band raster and raised
C8_Witness ==
    /\ Returned("breaks")
    /\ call.arg.form = "lists"
    /\ Len(call.arg.lens) = 2
    /\ band_count(call.rast) = 1
    /\ err.type = "ValueError"
    /\ native.fn = ""

\* the errors of strat's checks that come before the checks of the weights
StratEarlyErrors ==
    { ValueError("band not in given raster."),
      NameError("name 'raster' is not defined"),
      ValueError("num_samples must be greater than 0"),
      ValueError("method must be either 'random' or 'Queinnec'."),
      ValueError("method must be one of 'prop', 'optim', 'equal', or 'manual'.") }

StratWeightErrors ==
    { ValueError("for manual allocation, weights must be given."),
      ValueError("weights must sum to 1."),
      ValueError("length of 'weights' must be the same as the number of strata.") }

\* the weights sum to 1 within 1e-9
SumsToOneWithinTolerance(w) ==
    /\ SumQ(w) = WeightUnits
    /\ SumE(w) <= Tolerance
    /\ SumE(w) >= -Tolerance

\* C9: strat with allocation='manual' (reaching the checks of the weights)
\* raises ValueError unless weights is given, len(weights) = num_strata and
\* the weights sum to 1 within 1e-9; weights meeting the three conditions
\* are accepted.
C9_ManualWeightsTolerance ==
    (Returned("strat") /\ call.arg.allocation = "manual"
      /\ err \notin StratEarlyErrors)
        => (err \in StratWeightErrors
              <=> ~(/\ ~call.arg.weights.none
                    /\ Len(call.arg.weights.v) = call.arg.num_strata
                    /\ SumsToOneWithinTolerance(call.arg.weights.v)))

(***************************************************************************)
(* Pixels: classification and the composite index                          *)
(***************************************************************************)
\* longest breakpoint list, and largest breakpoint
MaxBreaks == 3
MaxVal == 4

\* the stratum of a nodata pixel
NoDataStrat == -1

\* pixel values; a negative value is nodata (test_large.py line 23)
PixelValues == -1..(MaxVal + 1)

BreakLists == SeqUpTo(1..MaxVal, MaxBreaks) \ {<<>>}

StrictlyIncreasing(q) == \A i \in 1..(Len(q) - 1) : q[i] < q[i + 1]

\* test_large.py lines 28-30: the loop from correct_strat = s
RECURSIVE correct_strat_from(_, _, _)
correct_strat_from(q, val, s) ==
    IF s < Len(q) /\ q[s + 1] < val
    THEN correct_strat_from(q, val, s + 1)
    ELSE s

\* correct_strat counting the breakpoints at or below val
correct_strat_at_or_below(q, val) ==
    IF val < 0 THEN NoDataStrat
    ELSE Cardinality({i \in 1..Len(q) : q[i] <= val})

\* correct_strat putting a nodata pixel into the lowest stratum
correct_strat_nodata_as_lowest(q, val) ==
    IF val < 0 THEN 0 ELSE correct_strat_from(q, val, 0)

\* test_large.py lines 23-30: the stratum expected of a pixel of value val
correct_strat(q, val) ==
    IF val < 0 THEN NoDataStrat ELSE correct_strat_from(q, val, 0)

\* breaks.py line 106: the number of strata of a band with len breakpoints
strata_count(len) == len + 1

\* spec 4.3: sum of strata[i] * (product of counts[j], j < i), from
\* dimension i with the product so far in radix
RECURSIVE composite_from(_, _, _, _)
composite_from(strata, counts, i, radix) ==
    IF i > Len(strata) THEN 0
    ELSE strata[i] * radix
           + composite_from(strata, counts, i + 1, radix * counts[i])

\* spec 4.3: nodata in any dimension propagates to the composite
composite(strata, counts) ==
    IF \E i \in 1..Len(strata) : strata[i] < 0 THEN NoDataStrat
    ELSE composite_from(strata, counts, 1, 1)

\* largest stratum count a caller of map declares for a band
MaxCount == 3

PixelCounts == 2..MaxCount

\* the stratum ids a pixel may hold in a band declared with c strata:
\* nodata, 0..c-1, and c (an id the declared count does not cover)
PixelStrata(c) == {NoDataStrat} \cup 0..c

\* every assignment of stratum ids to the dimensions of counts
PixelDims(counts) ==
    {d \in [1..Len(counts) -> {NoDataStrat} \cup 0..MaxCount] :
        \A i \in 1..Len(counts) : d[i] \in PixelStrata(counts[i])}

TwoBandStrat == Raster(<<"strat_zq90", "strat_pzabove2">>, 1, 1, <<4, 4>>)
OneBandStrat == Raster(<<"strat_zsd">>, 1, 1, <<4>>)

\* the breakpoint lists of the second band of a breaks call with map=True
SecondBandBreaks == {<<2>>, <<1, 3>>}

\* a pixel of value val is classified against the breakpoint list q
classify ==
    /\ cop = ""
    /\ \E q \in BreakLists, val \in PixelValues :
         /\ cbreaks' = q
         /\ cval' = val
         /\ cstrat' = correct_strat(q, val)
    /\ cop' = "classify"
    /\ UNCHANGED <<tmpVars, scanVars, cdims, ccounts, cmap, apiVars, planVars, sampVars>>

\* two pixels of the stratifications args names are combined by map: the
\* counts are those map hands to map_cpp
CombinePixels(args) ==
    /\ cop = ""
    /\ \E r \in {map_call(args, "None")} :
         /\ r.err = NoError
         /\ \E counts \in {Flatten(r.native.strata_lists)},
               dims \in {PixelDims(DeclaredCounts(args))} :
              \E d1 \in dims, d2 \in dims :
                 /\ cdims' = <<d1, d2>>
                 /\ cmap' = <<composite(d1, counts), composite(d2, counts)>>
    /\ ccounts' = DeclaredCounts(args)
    /\ cop' = "map"
    /\ UNCHANGED <<tmpVars, scanVars, cval, cbreaks, cstrat, apiVars, planVars, sampVars>>

mapPixels ==
    \E more \in {<<>>, <<MapTuple(OneBandStrat, Single(IntBand(0)), Single(2))>>} :
        \/ \E a \in PixelCounts, b \in PixelCounts :
             CombinePixels(<<MapTuple(TwoBandStrat,
                                List(<<IntBand(0), StrBand("strat_pzabove2")>>),
                                List(<<a, b>>))>> \o more)
        \/ \E a \in PixelCounts :
             CombinePixels(<<MapTuple(TwoBandStrat, Single(IntBand(1)), Single(a))>>
                             \o more)

\* two pixels of a two-band raster are classified by breaks with map=True
\* and combined; the count of a band is strata_count of its breakpoints
breaksMapPixels ==
    /\ cop = ""
    /\ \E q1 \in {q \in BreakLists : Len(q) <= 2 /\ StrictlyIncreasing(q)},
          q2 \in SecondBandBreaks :
         \E r \in {breaks_call(TwoBandStrat,
                        [form |-> "lists", keys |-> <<>>,
                         lens |-> <<Len(q1), Len(q2)>>], TRUE, 8, "None")} :
            /\ r.err = NoError
            /\ \E counts \in {[i \in 1..Len(r.native.dict) |->
                                  strata_count(r.native.dict[i].len)]} :
                 \E v \in PixelValues \X PixelValues,
                    w \in PixelValues \X PixelValues :
                    \E d1 \in {<<correct_strat(q1, v[1]), correct_strat(q2, v[2])>>},
                       d2 \in {<<correct_strat(q1, w[1]), correct_strat(q2, w[2])>>} :
                       /\ cdims' = <<d1, d2>>
                       /\ cmap' = <<composite(d1, counts), composite(d2, counts)>>
            /\ ccounts' = <<Len(q1) + 1, Len(q2) + 1>>
    /\ cop' = "breaks_map"
    /\ UNCHANGED <<tmpVars, scanVars, cval, cbreaks, cstrat, apiVars, planVars, sampVars>>

\* the caller goes on to its next pixels
nextPixels ==
    /\ cop # ""
    /\ cop' = ""
    /\ cval' = 0
    /\ cbreaks' = <<>>
    /\ cstrat' = 0
    /\ cdims' = <<>>
    /\ ccounts' = <<>>
    /\ cmap' = <<>>
    /\ UNCHANGED <<tmpVars, scanVars, apiVars, planVars, sampVars>>

PixNext == classify \/ mapPixels \/ breaksMapPixels \/ nextPixels

PixSpec == Init /\ [][PixNext]_vars

(***************************************************************************)
(* Properties of the pixels                                                *)
(***************************************************************************)
Classified == cop = "classify" /\ StrictlyIncreasing(cbreaks) /\ cval >= 0

RECURSIVE RadixBelow(_, _)
RadixBelow(counts, i) ==
    IF i <= 1 THEN 1 ELSE counts[i - 1] * RadixBelow(counts, i - 1)

Decode(comp, counts, i) == (comp \div RadixBelow(counts, i)) % counts[i]

\* pixel p is non-nodata in every dimension, each id within its count
InRange(p) ==
    \A i \in 1..Len(ccounts) : cdims[p][i] \in 0..(ccounts[i] - 1)

RECURSIVE SeqSum(_)
SeqSum(l) == IF l = <<>> THEN 0 ELSE l[1] + SeqSum(Tail(l))

Min(a, b) == IF a < b THEN a ELSE b

\* largest_remainder without the units left over: the floors alone
largest_remainder_floors(N, num, den) ==
    [i \in 1..Len(num) |-> (N * num[i]) \div den]

\* N units shared in proportion num[i] / den (the num[i] sum to den):
\* the floors, and the units left over go one each to the strata of
\* largest fractional remainder, ties to the lower stratum id
largest_remainder(N, num, den) ==
    LET floors == [i \in 1..Len(num) |-> (N * num[i]) \div den]
        rem == [i \in 1..Len(num) |-> (N * num[i]) % den]
        left == N - SeqSum(floors)
        before(i) == Cardinality({j \in 1..Len(num) :
                        rem[j] > rem[i] \/ (rem[j] = rem[i] /\ j < i)})
    IN  [i \in 1..Len(num) |-> floors[i] + (IF before(i) < left THEN 1 ELSE 0)]

\* proportional: target_i = N * population_i / sum of the populations,
\* for a band with at least one valid pixel
proportional_targets(N, pop) == largest_remainder(N, pop, SeqSum(pop))

\* equal: N / num_strata each, and N mod num_strata units one at a time in
\* ascending id order
equal_targets(N, num_strata) ==
    [i \in 1..num_strata |->
        (N \div num_strata) + (IF i <= N % num_strata THEN 1 ELSE 0)]

\* manual: a weight per stratum, weights[i].q / WeightUnits
manual_targets(N, weights) ==
    largest_remainder(N, [i \in 1..Len(weights) |-> weights[i].q], WeightUnits)

allocation_targets(policy, N, pop, weights) ==
    IF policy = "prop" THEN proportional_targets(N, pop)
    ELSE IF policy = "equal" THEN equal_targets(N, Len(pop))
    ELSE manual_targets(N, weights)

\* allocation_plan giving the units a stratum cannot take to the strata
\* that have pixels to spare
allocation_plan_redistributed(policy, N, pop, weights) ==
    LET targets == allocation_targets(policy, N, pop, weights)
        deficit == SeqSum([i \in 1..Len(pop) |->
                              targets[i] - Min(targets[i], pop[i])])
    IN  [targets |-> targets,
         counts |-> [i \in 1..Len(pop) |-> Min(targets[i] + deficit, pop[i])],
         shortfall |-> [i \in 1..Len(pop) |-> 0]]

\* a target above the stratum's population is clamped to it and the
\* shortfall recorded, never given to another stratum
allocation_plan(policy, N, pop, weights) ==
    LET targets == allocation_targets(policy, N, pop, weights)
    IN  [targets |-> targets,
         counts |-> [i \in 1..Len(pop) |-> Min(targets[i], pop[i])],
         shortfall |-> [i \in 1..Len(pop) |->
                           targets[i] - Min(targets[i], pop[i])]]

\* largest population of a stratum, and largest number of samples asked
MaxPop == 4
MaxSamples == 6

\* the weight lists manual allocation accepts for num_strata strata: one
\* weight q / WeightUnits per stratum, summing to 1
PlanWeights(num_strata) ==
    {w \in [1..num_strata -> {Weight(q, 0) : q \in 1..(WeightUnits - 1)}] :
        SumQ(w) = WeightUnits}

\* the planner is asked for N samples over strata of populations pop, of
\* a band with at least one valid pixel
PlanFor(policy, N, pop, weights) ==
    /\ alloc = NoPlan
    /\ SeqSum(pop) > 0
    /\ alloc' = [op |-> "plan", policy |-> policy, N |-> N, pop |-> pop,
                 weights |-> weights,
                 plan |-> allocation_plan(policy, N, pop, weights)]
    /\ UNCHANGED <<tmpVars, scanVars, apiVars, pixVars, sampVars>>

planShares ==
    \E num_strata \in StratNumStrata, N \in 1..MaxSamples,
       policy \in {"prop", "equal"} :
        \E pop \in [1..num_strata -> 0..MaxPop] :
            PlanFor(policy, N, pop, <<>>)

planManual ==
    \E num_strata \in StratNumStrata, N \in 1..MaxSamples :
        \E pop \in [1..num_strata -> 0..MaxPop],
           weights \in PlanWeights(num_strata) :
            PlanFor("manual", N, pop, weights)

\* the caller goes on to its next request
nextPlan ==
    /\ alloc # NoPlan
    /\ alloc' = NoPlan
    /\ UNCHANGED <<tmpVars, scanVars, apiVars, pixVars, sampVars>>

PlanNext == planShares \/ planManual \/ nextPlan

PlanSpec == Init /\ [][PlanNext]_vars

(***************************************************************************)
(* Properties of the planner                                               *)
(***************************************************************************)
Planned == alloc.op = "plan"

\* C3: for prop, equal and manual allocation with requested total N, the
\* plan's per-stratum counts are all >= 0, each is at most the population
\* of its stratum, and whenever every population is at least the computed
\* target the counts sum to exactly N.
C3_PlanSumsToN ==
    Planned
        => LET p == alloc.plan
               strata == 1..Len(alloc.pop)
           IN  /\ \A i \in strata : p.counts[i] >= 0
               /\ \A i \in strata : p.counts[i] <= alloc.pop[i]
               /\ (\A i \in strata : alloc.pop[i] >= p.targets[i])
                     => SeqSum(p.counts) = alloc.N

\* proportional allocation of 5 samples over populations 3, 3, 4: the
\* floors 1, 1, 2 leave one unit, and the tie of the remainders of strata
\* 0 and 1 goes to stratum 0
C3_Witness ==
    /\ Planned
    /\ alloc.policy = "prop"
    /\ alloc.N = 5
    /\ alloc.pop = <<3, 3, 4>>
    /\ alloc.plan.counts = <<2, 1, 2>>

(***************************************************************************)
(* Scenes: a stratum raster band with its pixels, the access mask and the  *)
(* existing points that go with it                                         *)
(***************************************************************************)
\* strata: the rows of the band, a stratum id 0..num_strata-1 or
\* NoDataStrat per pixel; a pixel is <<row, column>>, a point the centre of
\* its pixel, and the pixel size the unit of distance.  mask: the pixels
\* inside the outer and outside the inner buffer of the access geometry.
\* existing: the pixel that holds each point of the existing vector.
Scene(strata, num_strata, mask, existing) ==
    [strata |-> strata, num_strata |-> num_strata, mask |-> mask,
     existing |-> existing]

ScenePixels(scene) ==
    (1..Len(scene.strata)) \X (1..Len(scene.strata[1]))

StratumAt(scene, p) == scene.strata[p[1]][p[2]]

\* the pixels of stratum id s
StratumPixels(scene, s) == {p \in ScenePixels(scene) : StratumAt(scene, p) = s}

\* per stratum id 0..num_strata-1, its population of valid pixels
Population(scene) ==
    [i \in 1..scene.num_strata |-> Cardinality(StratumPixels(scene, i - 1))]

DistSq(p, q) == (p[1] - q[1]) * (p[1] - q[1]) + (p[2] - q[2]) * (p[2] - q[2])

\* HighPriority looking only at the pixels of the window that are inside
\* the band and valid
HighPriority_in_bounds(scene, p, wrow, wcol) ==
    /\ StratumAt(scene, p) # NoDataStrat
    /\ \A row \in 0..(wrow - 1), col \in 0..(wcol - 1) :
          LET q == <<p[1] + row - wrow \div 2, p[2] + col - wcol \div 2>>
          IN  (q \in ScenePixels(scene) /\ StratumAt(scene, q) # NoDataStrat)
                => StratumAt(scene, q) = StratumAt(scene, p)

\* test_sample_strat.py lines 50-59: every pixel of the wrow x wcol window
\* centred on p holds the stratum of p
HighPriority(scene, p, wrow, wcol) ==
    /\ StratumAt(scene, p) # NoDataStrat
    /\ \A row \in 0..(wrow - 1), col \in 0..(wcol - 1) :
          LET q == <<p[1] + row - wrow \div 2, p[2] + col - wcol \div 2>>
          IN  /\ q \in ScenePixels(scene)
              /\ StratumAt(scene, q) = StratumAt(scene, p)

ColumnsFrom(strata, c) ==
    {p \in (1..Len(strata)) \X (1..Len(strata[1])) : p[2] >= c}

SceneA ==
    LET strata == << <<0, 0, 0, 1>>,
                     <<0, 0, 0, 1>>,
                     <<0, 0, 0, 1>> >>
    IN  Scene(strata, 2, ColumnsFrom(strata, 2),
              [e \in {1, 2} |-> <<1, e>>])

SceneB ==
    LET strata == << <<0, 0, 0, 0, NoDataStrat>>,
                     <<0, 0, 0, 0, 1>>,
                     <<0, 0, 0, 0, 1>> >>
    IN  Scene(strata, 2, ColumnsFrom(strata, 2),
              [e \in {1, 2} |-> IF e = 1 THEN <<1, 5>> ELSE <<2, 4>>])

SceneC ==
    LET strata == << <<0, 0, 0, 2>>,
                     <<0, 0, 0, 1>>,
                     <<0, 0, 0, 1>> >>
    IN  Scene(strata, 3, ColumnsFrom(strata, 1),
              [e \in {1, 2} |-> <<e, 4>>])

SampleScenes == {SceneA, SceneB, SceneC}

(***************************************************************************)
(* The sampling orchestrator and the candidate selector (spec 4.5, 4.6)    *)
(***************************************************************************)
SamplePixels == {x.pix : x \in samples}

\* the accepted points that lie in stratum id s
InStratum(s) == {x \in samples : StratumAt(job.scene, x.pix) = s}

\* the stratum's quota is not used up
QuotaLeft == Cardinality(InStratum(stratum)) < plan.counts[stratum + 1]

\* p is at least mindist from every accepted point
FarEnough(p) ==
    \A q \in SamplePixels :
        DistSq(p, q) >= job.args.mindist * job.args.mindist

\* p is in the candidate pool of the stratum at work (a valid pixel of the
\* stratum inside the access mask), not yet accepted, and far enough
Acceptable(p) ==
    /\ p \in ScenePixels(job.scene)
    /\ StratumAt(job.scene, p) = stratum
    /\ job.args.access_given => p \in job.scene.mask
    /\ p \notin SamplePixels
    /\ FarEnough(p)

AcceptableExisting ==
    IF job.args.existing.none THEN {}
    ELSE {p \in {job.scene.existing[e] : e \in job.args.existing.v} :
            Acceptable(p)}

AcceptableHighPriority ==
    {p \in ScenePixels(job.scene) :
        /\ Acceptable(p)
        /\ HighPriority(job.scene, p, job.args.wrow, job.args.wcol)}

AcceptableCandidates == {p \in ScenePixels(job.scene) : Acceptable(p)}

Accepted(p, how) == [pix |-> p, how |-> how]

\* the orchestrator validates the call, plans once and merges the existing
\* points: with force every existing point is accepted at once
StartJob(c, scene) ==
    /\ sel = "IDLE"
    /\ \E r \in {strat_call(c)} :
         /\ r.err = NoError
         /\ job' = [fn |-> "strat", c |-> c, args |-> r.native, scene |-> scene]
         /\ plan' = allocation_plan(r.native.allocation, r.native.num_samples,
                                    Population(scene), r.native.weights)
         /\ samples' = IF r.native.force /\ ~r.native.existing.none
                       THEN {Accepted(scene.existing[e], "existing") :
                                e \in r.native.existing.v}
                       ELSE {}
    /\ stratum' = 0
    /\ sel' = "INIT"
    /\ report' = NoReport
    /\ UNCHANGED <<tmpVars, scanVars, apiVars, pixVars, planVars>>

\* INIT, force=false: an existing point of the stratum is taken first,
\* within the quota and the constraints
acceptExisting ==
    /\ sel = "INIT"
    /\ ~job.args.force
    /\ QuotaLeft
    /\ \E p \in AcceptableExisting :
         samples' = samples \cup {Accepted(p, "existing")}
    /\ UNCHANGED <<tmpVars, scanVars, job, plan, stratum, sel, report, apiVars, pixVars, planVars>>

\* SCAN_FOCAL: a high-priority pixel, any of those acceptable
acceptFocal ==
    /\ sel = "SCAN_FOCAL"
    /\ QuotaLeft
    /\ \E p \in AcceptableHighPriority :
         samples' = samples \cup {Accepted(p, "focal")}
    /\ UNCHANGED <<tmpVars, scanVars, job, plan, stratum, sel, report, apiVars, pixVars, planVars>>

\* RANDOM, FALLBACK_RANDOM: any acceptable candidate of the stratum
acceptRandom ==
    /\ sel \in {"RANDOM", "FALLBACK_RANDOM"}
    /\ QuotaLeft
    /\ \E p \in AcceptableCandidates :
         samples' = samples \cup {Accepted(p, "random")}
    /\ UNCHANGED <<tmpVars, scanVars, job, plan, stratum, sel, report, apiVars, pixVars, planVars>>

\* a selector that leaves every state at once
Pending_nothing == {}

\* what the state at work can still accept
Pending ==
    IF ~QuotaLeft THEN {}
    ELSE IF sel = "INIT"
    THEN (IF job.args.force THEN {} ELSE AcceptableExisting)
    ELSE IF sel = "SCAN_FOCAL" THEN AcceptableHighPriority
    ELSE AcceptableCandidates

\* INIT -> SCAN_FOCAL -> FALLBACK_RANDOM -> DONE (Queinnec),
\* INIT -> RANDOM -> DONE (random): a state is left when it can accept
\* nothing more
advance ==
    /\ sel \in {"INIT", "SCAN_FOCAL", "FALLBACK_RANDOM", "RANDOM"}
    /\ Pending = {}
    /\ sel' = IF sel = "INIT"
              THEN (IF job.args.method = "Queinnec" THEN "SCAN_FOCAL"
                    ELSE "RANDOM")
              ELSE IF sel = "SCAN_FOCAL" THEN "FALLBACK_RANDOM"
              ELSE "DONE"
    /\ UNCHANGED <<tmpVars, scanVars, job, plan, stratum, samples, report, apiVars, pixVars, planVars>>

\* the strata are served in ascending id order
nextStratum ==
    /\ sel = "DONE"
    /\ stratum < job.args.num_strata - 1
    /\ stratum' = stratum + 1
    /\ sel' = "INIT"
    /\ UNCHANGED <<tmpVars, scanVars, job, plan, samples, report, apiVars, pixVars, planVars>>

\* the accepted points are aggregated and achieved is reported against
\* requested, with the deficit of every stratum; strat prints its message
\* and returns the points
finishJob ==
    /\ sel = "DONE"
    /\ stratum = job.args.num_strata - 1
    /\ sel' = "REPORTED"
    /\ \E r \in {strat_finish(Cardinality(samples), job.args.num_samples)} :
         report' = [requested |-> job.args.num_samples,
                    achieved |-> Cardinality(samples),
                    shortfall |-> [i \in 1..job.args.num_strata |->
                        IF Cardinality(InStratum(i - 1)) >= plan.targets[i] THEN 0
                        ELSE plan.targets[i] - Cardinality(InStratum(i - 1))],
                    err |-> r.err,
                    printed |-> r.printed,
                    returned |-> IF r.err = NoError THEN SamplePixels ELSE {}]
    /\ UNCHANGED <<tmpVars, scanVars, job, plan, stratum, samples, apiVars, pixVars, planVars>>

\* the caller goes on to its next job
nextJob ==
    /\ sel = "REPORTED"
    /\ job' = NoJob
    /\ plan' = [targets |-> <<>>, counts |-> <<>>, shortfall |-> <<>>]
    /\ stratum' = 0
    /\ sel' = "IDLE"
    /\ samples' = {}
    /\ report' = NoReport
    /\ UNCHANGED <<tmpVars, scanVars, apiVars, pixVars, planVars>>

\* --- the jobs a caller starts ---
SampleCounts == {1, 3, 4}

\* method, wrow, wcol
SampleMethods == {<<"random", 3, 3>>, <<"Queinnec", 3, 3>>, <<"Queinnec", 3, 5>>}

SampleMindists == {NoNum, Some(2)}

SampleAccess == {NoAccess, Some(Access(<<"access">>, Some("access"), NoNum, Some(3)))}

\* existing, force
SampleExisting == {<<NoVector, FALSE>>, <<Some({1, 2}), TRUE>>, <<Some({1, 2}), FALSE>>}

\* allocation, weights
SampleAllocations(num_strata) ==
    { <<"prop", NoWeights>>, <<"equal", NoWeights>>,
      <<"manual", Some([i \in 1..num_strata |->
                           IF i < num_strata THEN Weight(1, 0)
                           ELSE Weight(WeightUnits - num_strata + 1, 0)])>> }

startJob ==
    \E scene \in SampleScenes, N \in SampleCounts, m \in SampleMethods,
       mindist \in SampleMindists, access \in SampleAccess,
       ex \in SampleExisting :
        \E al \in SampleAllocations(scene.num_strata) :
            StartJob(StratCall([strat_rast |-> Raster(<<"strat_zq90">>, 1, 1, <<4>>),
                                has_temp_dir |-> TRUE,
                                band |-> StrBand("strat_zq90")],
                               N, scene.num_strata, <<m[2], m[3]>>, al[1], al[2],
                               <<NoRaster, NoBand>>, m[1], mindist, ex[1], ex[2],
                               access),
                     scene)

SampNext ==
    \/ startJob
    \/ acceptExisting
    \/ acceptFocal
    \/ acceptRandom
    \/ advance
    \/ nextStratum
    \/ finishJob
    \/ nextJob

SampSpec == Init /\ [][SampNext]_vars

\* the selector is a loop that runs to completion: a stratum at work goes
\* on accepting or leaves its state
SelectorRuns == acceptExisting \/ acceptFocal \/ acceptRandom \/ advance

SampFairSpec == SampSpec /\ WF_vars(SelectorRuns)

(***************************************************************************)
(* Properties of the sampling                                              *)
(***************************************************************************)
Running == sel \notin {"IDLE"}
Reported == sel = "REPORTED"

\* mindist as the caller gave it
CallMindist == IF job.c.mindist.none THEN 0 ELSE job.c.mindist.v

\* the pixels of the existing points the caller gave
CallExisting ==
    IF job.c.existing.none THEN {}
    ELSE {job.scene.existing[e] : e \in job.c.existing.v}

Apart(x, y) == DistSq(x.pix, y.pix) >= CallMindist * CallMindist

WindowHomogeneous(p) ==
    \A dr \in (-(job.c.wrow \div 2))..(job.c.wrow \div 2),
       dc \in (-(job.c.wcol \div 2))..(job.c.wcol \div 2) :
        /\ <<p[1] + dr, p[2] + dc>> \in ScenePixels(job.scene)
        /\ StratumAt(job.scene, <<p[1] + dr, p[2] + dc>>) # NoDataStrat
        /\ StratumAt(job.scene, <<p[1] + dr, p[2] + dc>>)
             = StratumAt(job.scene, p)

\* the high-priority pixels of stratum id s that satisfy the access
\* constraint
HighPriorityCandidates(s) ==
    {p \in StratumPixels(job.scene, s) :
        /\ WindowHomogeneous(p)
        /\ ~job.c.access.none => p \in job.scene.mask}

ExistingIn(s) == {x \in InStratum(s) : x.how = "existing"}

\* the existing points of the stratum at work that are not accepted yet and
\* satisfy the access and mindist constraints the caller gave
OpenExisting ==
    {p \in CallExisting :
        /\ StratumAt(job.scene, p) = stratum
        /\ p \notin SamplePixels
        /\ ~job.c.access.none => p \in job.scene.mask
        /\ \A q \in SamplePixels : DistSq(p, q) >= CallMindist * CallMindist}

\* C11: with force=false, in each stratum the existing points are taken
\* before every other candidate (no focal or random point is accepted while
\* an acceptable existing point of the stratum is left), the existing points
\* accepted in a stratum never outnumber its target, and every accepted
\* existing point lies on a valid pixel inside the access mask and at least
\* mindist from every other accepted point.
C11_ExistingFirstWithinTarget ==
    (Running /\ ~job.c.force)
        => /\ \A s \in 0..(job.c.num_strata - 1) :
                 Cardinality(ExistingIn(s)) <= plan.targets[s + 1]
           /\ \A x \in samples :
                 x.how = "existing"
                   => /\ x.pix \in CallExisting
                      /\ StratumAt(job.scene, x.pix) # NoDataStrat
                      /\ ~job.c.access.none => x.pix \in job.scene.mask
                      /\ \A y \in samples : y.pix # x.pix => Apart(x, y)
           /\ \A x \in samples :
                 x.how # "existing"
                   => \/ StratumAt(job.scene, x.pix) < stratum
                      \/ StratumAt(job.scene, x.pix) = stratum /\ sel # "INIT"
           /\ (sel \in {"SCAN_FOCAL", "RANDOM", "FALLBACK_RANDOM"} /\ QuotaLeft)
                 => OpenExisting = {}

\* a Queinnec run with force=false is finished: one existing point was
\* accepted, the other was dropped although it lies on a valid pixel, and a
\* pixel that is no existing point was selected in the stratum of the
\* accepted one
C11_Witness ==
    /\ Reported
    /\ ~job.c.force
    /\ job.c.method = "Queinnec"
    /\ \E x \in samples :
          /\ x.how = "existing"
          /\ \E y \in samples :
                /\ y.how # "existing"
                /\ StratumAt(job.scene, y.pix) = StratumAt(job.scene, x.pix)
    /\ \E p \in CallExisting :
          /\ p \notin SamplePixels
          /\ StratumAt(job.scene, p) # NoDataStrat

\* the points newly selected in stratum id s: those that are no existing
\* points
NewIn(s) == {x \in InStratum(s) : x.how \in {"focal", "random"}}

\* the constrained candidate pool of stratum id s: its valid pixels inside
\* the access mask the caller asked for
Pool(s) ==
    {p \in StratumPixels(job.scene, s) :
        ~job.c.access.none => p \in job.scene.mask}

C13_ShortfallIsNoError ==
    Reported
        => /\ report.err = NoError
           /\ report.returned = SamplePixels
           /\ report.requested = job.c.num_samples
           /\ report.achieved = Cardinality(samples)
           /\ report.printed <=> report.achieved < report.requested

\* a run is finished with some points, fewer than were asked for
C13_Witness ==
    /\ Reported
    /\ report.achieved < report.requested
    /\ report.achieved > 0
    /\ report.printed
    /\ report.returned # {}

(***************************************************************************)
(* Properties of the sgspy snapshot                                        *)
(***************************************************************************)
\* the stratum count recorded for the band handed to strat_cpp
RecordedCount == call.arg.srast.srast_metadata_info[native.band + 1]

\* C14: strat raises a validation error, before any temp directory or
\* native call, when the stratum raster carries no provenance and
\* num_strata is not given; when the raster carries provenance, the
\* num_strata handed to strat_cpp (for a band index that is not negative)
\* and used by the manual-weights check is the stratum count recorded for
\* the selected band, whatever num_strata argument was given; without
\* provenance it is the argument.
C14_NumStrataResolved ==
    Returned("sgspy.strat")
        => /\ (~call.arg.srast.is_strat_rast /\ call.arg.num_strata.none)
                => /\ err.type = "ValueError"
                   /\ native = NoNative
                   /\ mkdtemp = 0
           /\ (call.arg.srast.is_strat_rast /\ err = NoError /\ native.band >= 0)
                => /\ native.num_strata = RecordedCount
                   /\ call.arg.allocation = "manual"
                        => Len(native.weights) = RecordedCount
           /\ (~call.arg.srast.is_strat_rast /\ err = NoError)
                => native.num_strata = call.arg.num_strata.v

\* a call on the second band of a two-band raster with provenance has
\* returned: num_strata was given as another number than the count recorded
\* for that band, and the recorded count went to strat_cpp
C14_Witness ==
    /\ Returned("sgspy.strat")
    /\ call.arg.srast.is_strat_rast
    /\ err = NoError
    /\ native.band = 1
    /\ ~call.arg.num_strata.none
    /\ call.arg.num_strata.v # RecordedCount
    /\ native.num_strata = RecordedCount
    /\ call.arg.allocation = "manual"

(***************************************************************************)
(* Nodata                                                                  *)
(***************************************************************************)
\* the pixels of a band that count towards the population of stratum id s
\* are those holding s, for s in 0..strata_count - 1
CountedInSomeStratum(id, count) == \E s \in 0..(count - 1) : id = s

TupleOneList(t) == t.bands.list # t.num_stratum.list

\* both are lists, of different lengths
TupleLengthsDiffer(t) ==
    t.bands.list /\ t.num_stratum.list /\ Len(t.bands.items) # Len(t.num_stratum.items)

\* the band list is longer than the raster's band count
TupleTooManyBands(t) == t.bands.list /\ Len(t.bands.items) > Len(t.rast.bands)

\* band b names no band of raster rast
NotABand(rast, b) ==
    IF b.t = "int" THEN b.i < 0 \/ b.i >= Len(rast.bands)
    ELSE \A k \in 1..Len(rast.bands) : rast.bands[k] # b.s

TupleUnknownBand(t) == \E k \in 1..Len(t.bands.items) : NotABand(t.rast, t.bands.items[k])

\* the rasters of the tuples do not all have the same width and height
SizesDiffer(args) ==
    \E i, j \in 1..Len(args) :
        args[i].rast.height # args[j].rast.height \/ args[i].rast.width # args[j].rast.width

\* some tuple has a defect for which ValueError is to be raised
ValueDefect(args) ==
    \/ SizesDiffer(args)
    \/ \E i \in 1..Len(args) :
          TupleLengthsDiffer(args[i]) \/ TupleTooManyBands(args[i]) \/ TupleUnknownBand(args[i])

\* some tuple has the defect for which TypeError is to be raised
TypeDefect(args) == \E i \in 1..Len(args) : TupleOneList(args[i])

\* the 0-based index of band b in raster rast
BandIndexOf(rast, b) ==
    IF b.t = "int" THEN b.i
    ELSE (CHOOSE k \in 1..Len(rast.bands) : rast.bands[k] = b.s) - 1

\* C16: for each tuple given to map, TypeError is raised if exactly one of
\* bands and num_stratum is a list, and ValueError is raised if both are
\* lists of different lengths, if the band list is longer than the raster's
\* band count, if a band is not a band of that raster, or if the rasters
\* differ in width or height; when the tuples of a call have defects of both
\* kinds the call raises one of the two; nothing is raised for the tuples
\* when they have no defect, and map_cpp then receives, tuple by tuple, the
\* band indices and the stratum counts as declared.
C16_MapTupleValidation ==
    Returned("map") =>
        /\ (TypeDefect(call.args) /\ ~ValueDefect(call.args))
              => err.type = "TypeError"
        /\ (ValueDefect(call.args) /\ ~TypeDefect(call.args))
              => err.type = "ValueError"
        /\ (TypeDefect(call.args) \/ ValueDefect(call.args))
              => /\ err.type \in {"TypeError", "ValueError"}
                 /\ err \in MapArgumentErrors
                 /\ mkdtemp = 0
                 /\ native.fn = ""
        /\ (~TypeDefect(call.args) /\ ~ValueDefect(call.args))
              => /\ err \notin MapArgumentErrors
                 /\ (~DeclaredProductExceeds(call.args)
                       /\ call.driver_options # "nonstr_key")
                       => /\ err = NoError
                          /\ native.fn = "map_cpp"
                          /\ native.band_lists =
                               [i \in 1..Len(call.args) |->
                                  [k \in 1..Len(call.args[i].bands.items) |->
                                     BandIndexOf(call.args[i].rast,
                                                 call.args[i].bands.items[k])]]
                          /\ native.strata_lists =
                               [i \in 1..Len(call.args) |-> call.args[i].num_stratum.items]

\* map took a tuple with two bands, one by index and one by name, and two
\* counts, followed by a second tuple, and handed both on to map_cpp
C16_Witness ==
    /\ Returned("map")
    /\ Len(call.args) = 2
    /\ call.args[1].bands = List(<<IntBand(0), StrBand("strat_pzabove2")>>)
    /\ call.args[1].num_stratum = List(<<5, 5>>)
    /\ err = NoError
    /\ native.fn = "map_cpp"
    /\ native.band_lists = <<<<0, 1>>, <<0>>>>

(***************************************************************************)
(* The num_strata argument of quantiles                                    *)
(***************************************************************************)
\* the probability lists a num_strata argument supplies: the flat
\* list[float] itself, or the list items of a per-band list or dict
SuppliedLists(a) ==
    IF a.form = "list" /\ a.items # <<>> /\ a.items[1].t = "float"
    THEN {FloatVals(a.items)}
    ELSE {a.items[i].vals : i \in {j \in 1..Len(a.items) : a.items[j].t = "list"}}

OutOfUnitRange(l) == \E i \in 1..Len(l) : l[i] < 0 \/ l[i] > 10

\* a list given band by band: a list whose first item is an int or a list
PerBandList(a) == a.form = "list" /\ a.items # <<>> /\ a.items[1].t # "float"

\* one of the defects of the num_strata argument a for raster rast
QuantDefect(rast, a) ==
    \/ \E l \in SuppliedLists(a) : OutOfUnitRange(l)
    \/ a.form = "list" /\ a.items = <<>>
    \/ /\ a.form = "int" \/ (a.form = "list" /\ a.items # <<>> /\ a.items[1].t = "float")
       /\ Len(rast.bands) # 1
    \/ PerBandList(a) /\ Len(a.items) # Len(rast.bands)
    \/ a.form = "dict" /\ \E i \in 1..Len(a.keys) :
          \A k \in 1..Len(rast.bands) : rast.bands[k] # a.keys[i]

\* an int 0 is among the items given band by band
ZeroAmongItems(a) == \E i \in 1..Len(a.items) : a.items[i] = IntItem(0)

\* C17: quantiles raises ValueError, before any native call,
\* whenever a supplied probability list contains a value below 0 or above 1,
\* the specification list is empty, an int or list-of-floats specification
\* is given for a raster whose band count is not 1, a per-band list's length
\* differs from the band count, or a dict key is not a band name.
C17_QuantilesRaisesValueError ==
    (Returned("quantiles") /\ QuantDefect(call.rast, call.arg))
        => /\ err.type = "ValueError"
           /\ mkdtemp = 0
           /\ native.fn = ""

\* in each of these cases quantiles raises before any temp directory is
\* created and before the native call, and what it raises is a ValueError
\* unless an int 0 among the per-band items of the same list or dict was
\* reached first, whose division raises ZeroDivisionError
QuantDefectsRaise ==
    (Returned("quantiles") /\ QuantDefect(call.rast, call.arg))
        => /\ \/ err.type = "ValueError"
              \/ /\ err = ZeroDivisionError
                 /\ call.arg.form \in {"list", "dict"}
                 /\ ZeroAmongItems(call.arg)
           /\ mkdtemp = 0
           /\ native.fn = ""

(***************************************************************************)
(* The probabilities quantiles hands to quantiles_cpp                      *)
(***************************************************************************)
\* the list l without any of its 0.0 and 1.0
WithoutZeroOne(l) == LET Inside(v) == v # 0 /\ v # 10 IN SelectSeq(l, Inside)

\* the int or list the caller gave for the i-th entry of probabilities_dict
GivenItem(a, i) ==
    IF a.form = "int" THEN IntItem(a.k)
    ELSE IF a.form = "list" /\ a.items[1].t = "float" THEN ListItem(FloatVals(a.items))
    ELSE a.items[i]

\* C18: the probability list quantiles hands to quantiles_cpp for each band
\* holds only values strictly between 0 and 1: for an int K the K-1 values
\* i/K, i = 1..K-1, and for an explicit list the given values with every 0
\* and every 1 removed.
C18_ProbabilitiesInsideUnitInterval ==
    (Returned("quantiles") /\ err = NoError) =>
        \A i \in 1..Len(native.dict) :
            LET e == native.dict[i]
                g == GivenItem(call.arg, i)
            IN  IF g.t = "int"
                THEN /\ e.kind = "range"
                     /\ e.k = g.k
                     /\ g.k >= 1 => e.len = g.k - 1
                ELSE /\ e.kind = "list"
                     /\ e.vals = WithoutZeroOne(g.vals)
                     /\ \A j \in 1..Len(e.vals) : 0 < e.vals[j] /\ e.vals[j] < 10

(***************************************************************************)
(* The window, method, allocation and mindist arguments of strat           *)
(***************************************************************************)
\* wrow or wcol is not one of 3, 5, 7, method is not 'random' or
\* 'Queinnec', allocation is not one of the four names, or mindist is
\* negative
StratArgDefect(c) ==
    \/ c.wrow \notin {3, 5, 7}
    \/ c.wcol \notin {3, 5, 7}
    \/ c.method \notin {"random", "Queinnec"}
    \/ c.allocation \notin {"prop", "optim", "equal", "manual"}
    \/ ~c.mindist.none /\ c.mindist.v < 0

\* C19: strat raises ValueError before any sampling whenever wrow or wcol
\* is not one of 3, 5, 7, whenever method is not exactly 'random' or
\* 'Queinnec', whenever allocation is not exactly one of 'prop', 'optim',
\* 'equal', 'manual', and whenever mindist is negative.
C19_StratRaisesValueError ==
    (Returned("strat") /\ StratArgDefect(call.arg))
        => /\ err.type = "ValueError"
           /\ mkdtemp = 0
           /\ native.fn = ""

\* in each of these cases strat raises before the temp directory and the
\* native call, and what it raises is a ValueError unless band is an int
\* beyond the raster's bands, whose message names the undefined 'raster'
StratArgDefectsRaise ==
    (Returned("strat") /\ StratArgDefect(call.arg))
        => /\ \/ err.type = "ValueError"
              \/ /\ err.type = "NameError"
                 /\ call.arg.band.t = "int"
                 /\ call.arg.band.i >= Len(call.arg.strat_rast.bands)
           /\ mkdtemp = 0
           /\ native.fn = ""

(***************************************************************************)
(* Provenance of the rasters returned by sgspy map and quantiles           *)
(***************************************************************************)
\* the tuples of an sgspy map call have no defect and their counts multiply
\* to at most MAX_STRATA_VAL
SgspyMapAccepts(args) ==
    /\ ~TypeDefect(args)
    /\ ~ValueDefect(args)
    /\ ~DeclaredProductExceeds(args)

\* the (band name, stratum count) pairs of the tuples of a map call, in
\* order
RECURSIVE ContributingPairs(_)
ContributingPairs(args) ==
    IF args = <<>> THEN <<>>
    ELSE LET t == args[1]
         IN  [k \in 1..Len(t.bands.items) |->
                 <<t.rast.bands[BandIndexOf(t.rast, t.bands.items[k]) + 1],
                   t.num_stratum.items[k]>>]
             \o ContributingPairs(Tail(args))

RECURSIVE PairsProduct(_)
PairsProduct(pairs) ==
    IF pairs = <<>> THEN 1 ELSE pairs[1][2] * PairsProduct(Tail(pairs))

\* the (band name, stratum count) pairs of the probabilities quantiles
\* would hand on for the argument a on raster rast
QuantilePairs(rast, a) ==
    LET d == quantiles_to_dict(rast, a).dict
    IN  [i \in 1..Len(d) |-> <<rast.bands[d[i].band + 1], d[i].len + 1>>]

\* the argument a passes the checks of quantiles with map=True
SgspyQuantilesAccepts(rast, a) ==
    /\ quantiles_to_dict(rast, a).err = NoError
    /\ quantiles_overflow_check(quantiles_to_dict(rast, a).dict, TRUE) = NoError

\* the StratRasterBandMetadata of a mapped band
MappedMetadata(pairs) ==
    [mapped |-> TRUE, strata_count |-> PairsProduct(pairs),
     mapped_band_metadata |-> pairs]

\* C20: the raster returned by map, and the strat_map band of quantiles
\* with map=True, records as provenance the ordered (band name, stratum
\* count) pairs of its contributing bands and a stratum count equal to the
\* product of those counts, and is marked as a stratification raster so
\* that it can be passed on without an explicit num_strata.
C20_ProvenanceRecorded ==
    /\ (Returned("sgspy.map") /\ SgspyMapAccepts(call.args))
          => /\ err = NoError
             /\ ret.is_strat_rast
             /\ ret.srast_metadata_info
                  = <<MappedMetadata(ContributingPairs(call.args))>>
    /\ (Returned("sgspy.quantiles") /\ call.map
          /\ SgspyQuantilesAccepts(call.rast, call.arg))
          => /\ err = NoError
             /\ ret.is_strat_rast
             /\ ret.srast_metadata_info # <<>>
             /\ ret.srast_metadata_info[Len(ret.srast_metadata_info)]
                  = MappedMetadata(QuantilePairs(call.rast, call.arg))

(***************************************************************************)
(* Ownership of temporary directories                                      *)
(***************************************************************************)
\* the live handles that own directory d: through have_temp_dir and
\* temp_dir, or through the temp directory of their cpp_raster
Owners(d) ==
    {h \in HandleIds :
        /\ handles[h].live
        /\ \/ handles[h].have_temp_dir /\ handles[h].temp_dir = d
           \/ handles[h].cpp_temp_dir = d}

\* C21: across any sequence of breaks, quantiles, map, strat calls and
\* handle deletions, every temporary directory that has been created and
\* not yet deleted is owned by exactly one live handle, also a directory
\* already owned by the first raster given to map and a directory made by a
\* call whose native step then fails; a directory that was deleted has no
\* owner left.
C21_ExactlyOneOwner ==
    /\ \A d \in dirs : Cardinality(Owners(d)) = 1
    /\ \A d \in (1..made) \ dirs : Owners(d) = {}

\* no directory ever has two owners
AtMostOneOwner == \A d \in 1..made : Cardinality(Owners(d)) <= 1

(***************************************************************************)
(* Errors come before the temp directory and the native call               *)
(***************************************************************************)
\* C22: in breaks, quantiles, map and strat every error of the argument
\* and overflow checks is raised before the temp directory is created and
\* before the native function is called: a call that raised made no temp
\* directory (the only thing the calls ever set on an input raster), reached
\* no native function and returned no raster.
C22_ErrorsBeforeComputation ==
    (pc = "returned" /\ err # NoError)
        => /\ mkdtemp = 0
           /\ native = NoNative
           /\ ret = NoReturn

\* strat failed its last check, the band count of strat_rast, with every
\* other argument in order
C22_Witness ==
    /\ Returned("strat")
    /\ err = ValueError("strat_raster must have a single band.")
    /\ ~StratArgDefect(call.arg)
    /\ mkdtemp = 0
    /\ native = NoNative

(***************************************************************************)
(* Block processing of large rasters                                       *)
(***************************************************************************)
\* the byte sizes, height x width x pixel size (in units of 2^20 bytes),
\* of the bands of rast given by their 0-based indices
BandBytes(rast, bands) ==
    [i \in 1..Len(bands) |-> rast.height * rast.width * rast.type_size[bands[i] + 1]]

RECURSIVE TotalBytes(_)
TotalBytes(sizes) == IF sizes = <<>> THEN 0 ELSE sizes[1] + TotalBytes(Tail(sizes))

\* the byte sizes of the bands a breaks or quantiles call handed on
SelectedBytes == BandBytes(call.rast, [i \in 1..Len(native.dict) |-> native.dict[i].band])

\* C23 as stated: breaks and quantiles select block processing exactly when
\* some selected band's byte size is >= 1 GiB or the selected bands' byte
\* sizes sum to >= 4 GiB.
C23_LargeFromFourGiB ==
    ((Returned("breaks") \/ Returned("quantiles")) /\ err = NoError)
        => (native.large_raster
              <=> \/ \E i \in 1..Len(SelectedBytes) : SelectedBytes[i] >= GIGABYTE
                  \/ TotalBytes(SelectedBytes) >= 4 * GIGABYTE)

\* C23 amended: breaks and quantiles select block processing exactly when
\* some selected band's byte size is >= 1 GiB or the selected bands' byte
\* sizes sum to more than 4 GiB; selected bands that sum to exactly 4 GiB
\* with none of them at 1 GiB are processed in memory.
C23_LargeAboveFourGiB ==
    ((Returned("breaks") \/ Returned("quantiles")) /\ err = NoError)
        => (native.large_raster
              <=> \/ \E i \in 1..Len(SelectedBytes) : SelectedBytes[i] >= GIGABYTE
                  \/ TotalBytes(SelectedBytes) > 4 * GIGABYTE)

\* breaks was handed nine bands of half a gigabyte each and selected block
\* processing for their sum
C23_Witness ==
    /\ Returned("breaks")
    /\ err = NoError
    /\ Len(SelectedBytes) = 9
    /\ \A i \in 1..9 : 2 * SelectedBytes[i] = GIGABYTE
    /\ native.large_raster


\* the byte sizes of the bands a map call handed on, tuple after tuple
MapSelectedBytes ==
    Flatten([i \in 1..Len(native.band_lists) |->
                BandBytes(call.args[i].rast, native.band_lists[i])])

\* C28: map selects block processing whenever any one selected band is
\* larger than 1 GiB, whether that band was named by a single int or str or
\* as an element of a bands list, and whenever all selected bands together
\* are larger than 4 GiB.
C28_MapLargeRaster ==
    (Returned("map") /\ err = NoError)
        => ((\/ \E i \in 1..Len(MapSelectedBytes) : MapSelectedBytes[i] > GIGABYTE
             \/ TotalBytes(MapSelectedBytes) > 4 * GIGABYTE)
              => native.large_raster)

\* the same for the bands given as the elements of a list
MapLargeRasterOfLists ==
    (Returned("map") /\ err = NoError /\ \A i \in 1..Len(call.args) : call.args[i].bands.list)
        => (native.large_raster
              <=> \/ \E i \in 1..Len(MapSelectedBytes) : MapSelectedBytes[i] > GIGABYTE
                  \/ TotalBytes(MapSelectedBytes) > 4 * GIGABYTE)

(***************************************************************************)
(* The selector's states                                                   *)
(***************************************************************************)
\* the moves of the selector within one stratum, by method
SelectorMoves(method) ==
    IF method = "Queinnec"
    THEN {<<"INIT", "SCAN_FOCAL">>, <<"SCAN_FOCAL", "FALLBACK_RANDOM">>,
          <<"FALLBACK_RANDOM", "DONE">>}
    ELSE {<<"INIT", "RANDOM">>, <<"RANDOM", "DONE">>}

AtWork == sel \in {"INIT", "SCAN_FOCAL", "FALLBACK_RANDOM", "RANDOM"}

\* a step that changes the selector's state while it works on a stratum
\* stays in the stratum and is one of the moves of the method
SelectorStep ==
    (AtWork /\ sel' # sel)
        => /\ stratum' = stratum
           /\ <<sel, sel'>> \in SelectorMoves(job.args.method)

\* the accepted points of the stratum at work
AcceptedHere == Cardinality(InStratum(stratum))

C24_MergeBarrier ==
    /\ \A b \in BlockIds : accum[b] <= 1
    /\ final => \A b \in ScanBlocks : accum[b] = 1 /\ block[b] = "merged"
    /\ \A b \in BlockIds :
         classified[b] # "no" => final /\ classified[b] = "final"

\* two workers, three blocks: the breakpoints are final, a block has been
\* classified and another has not
C24_Witness ==
    /\ scan.threads = 2 /\ scan.blocks = 3
    /\ final
    /\ \E b, c \in ScanBlocks : classified[b] = "final" /\ classified[c] = "no"

(***************************************************************************)
(* The integer band argument of strat                                      *)
(***************************************************************************)
\* band is an int that is no 0-based index of a band of strat_rast
IntBandOutOfRange(c) ==
    /\ c.band.t = "int"
    /\ \/ c.band.i >= Len(c.strat_rast.bands)
       \/ c.band.i < 0

\* C26: strat called with an integer band that is not a valid 0-based band
\* index of strat_rast (band >= number of bands, or band negative) raises
\* ValueError before any sampling starts.
C26_IntBandRaisesValueError ==
    (Returned("strat") /\ IntBandOutOfRange(call.arg))
        => /\ err.type = "ValueError"
           /\ mkdtemp = 0
           /\ native.fn = ""

\* what strat does with such a band: a band beyond the last one raises
\* NameError before any sampling, and a negative band is not tested at
\* all, so it either meets the ValueError of another argument or is handed
\* to strat_cpp as it is
IntBandOutOfRangeOutcome ==
    (Returned("strat") /\ IntBandOutOfRange(call.arg))
        => IF call.arg.band.i >= Len(call.arg.strat_rast.bands)
           THEN err.type = "NameError" /\ mkdtemp = 0 /\ native.fn = ""
           ELSE \/ err.type = "ValueError" /\ native.fn = ""
                \/ /\ err = NoError
                   /\ native.fn = "strat_cpp"
                   /\ native.band = call.arg.band.i

\* a negative band reaches strat_cpp
NegativeBandSampled ==
    /\ Returned("strat")
    /\ call.arg.band.i < 0 /\ call.arg.band.t = "int"
    /\ native.fn = "strat_cpp"

(***************************************************************************)
(* The auxiliary band of optim allocation                                  *)
(***************************************************************************)
\* the mrast_band argument of c names a band mrast has
MrastBandExists(c) ==
    /\ ~c.mrast.none
    /\ IF c.mrast_band.none THEN Len(c.mrast.v.bands) = 1
       ELSE IF c.mrast_band.v.t = "str"
       THEN c.mrast_band.v.s \in BandNameSet(c.mrast.v)
       ELSE c.mrast_band.v.i \in 0..(Len(c.mrast.v.bands) - 1)

\* the 0-based index of that band
MrastBandIndex(c) ==
    IF c.mrast_band.none THEN 0
    ELSE IF c.mrast_band.v.t = "str"
    THEN band_name_dict(c.mrast.v, c.mrast_band.v.s)
    ELSE c.mrast_band.v.i

\* the call raised because of its mrast or mrast_band argument
MrastRaised ==
    err.msg \in {"the 'mrast' parameter must be provided if allocation is 'optim'.",
                 "the 'mrast_band' parameter must be given if the 'mrast' SpatialRaster contains more than 1 band.",
                 "band not in mraster.",
                 "0-indexed band given, but raster only has fewer bands."}

\* C27: with allocation='optim', the auxiliary band index that strat
\* passes to selection is always a valid 0-based band index of mrast: a
\* mrast_band given as the name of an existing mrast band resolves to that
\* band's index, an in-range integer is passed unchanged, and an omitted
\* mrast_band on a single-band mrast resolves to that single band; a
\* missing mrast or a band that does not exist in mrast raises ValueError.
C27_MrastBandResolved ==
    (Returned("strat") /\ call.arg.allocation = "optim")
        => IF MrastBandExists(call.arg)
           THEN /\ ~MrastRaised
                /\ native.fn = "strat_cpp"
                     => native.mrast_band = MrastBandIndex(call.arg)
           ELSE err.type = "ValueError" /\ native.fn = ""

\* what strat does: an in-range integer is passed unchanged, a missing
\* mrast and an integer beyond the last band raise; a name always raises,
\* and an omitted mrast_band on a single-band mrast is passed as 1
MrastBandOutcome ==
    (Returned("strat") /\ call.arg.allocation = "optim")
        => /\ native.fn = "strat_cpp"
                => /\ ~call.arg.mrast.none
                   /\ native.mrast_band
                        = IF call.arg.mrast_band.none THEN 1
                          ELSE call.arg.mrast_band.v.i
           /\ (~call.arg.mrast.none /\ ~call.arg.mrast_band.none
                 /\ call.arg.mrast_band.v.t = "str")
                => native.fn = ""

\* an omitted mrast_band on a single-band mrast reaches strat_cpp
OmittedMrastBandSampled ==
    /\ Returned("strat") /\ call.arg.allocation = "optim"
    /\ call.arg.mrast_band.none
    /\ native.fn = "strat_cpp"

(***************************************************************************)
(* The counts map has validated                                            *)
(***************************************************************************)
\* C29: whenever map's validation passes, every declared stratum count is
\* an integer >= 1 and the product of all declared counts lies in
\* [1, 2,147,483,647], so every composite stratum id is non-negative and
\* fits in a signed 32-bit integer.
C29_ValidatedCountsPositive ==
    (Returned("map") /\ err = NoError)
        => LET cs == DeclaredCounts(call.args)
           IN  /\ \A i \in 1..Len(cs) : cs[i] >= 1
               /\ ~ProductAbove(cs, 1, MAX_STRATA_VAL)

\* what the validation of map ensures about the counts: their product is
\* not above 2,147,483,647; it is zero or negative when a count is
ValidatedProductNotAbove ==
    (Returned("map") /\ err = NoError)
        => ~DeclaredProductExceeds(call.args)

\* map_cpp is handed a count of zero or a negative count
NonPositiveCountMapped ==
    /\ Returned("map") /\ err = NoError
    /\ native.fn = "map_cpp"
    /\ \E i \in 1..Len(DeclaredCounts(call.args)) :
         DeclaredCounts(call.args)[i] < 1

(***************************************************************************)
(* The caller's num_strata argument after quantiles                        *)
(***************************************************************************)
\* C30: quantiles leaves its caller's specification argument unchanged: a
\* probability list passed directly, or a list held inside a list or dict
\* specification, contains the same values after the call as before it,
\* whether the call succeeds or raises.
C30_ArgumentUnchanged ==
    Returned("quantiles") => call.arg_after = call.arg

\* what quantiles does to the argument: of every list it has bound to
\* probabilities_dict the first 0.0 and the first 1.0 are gone, and
\* nothing else is changed
ArgumentLosesZeroOne ==
    Returned("quantiles")
        => /\ call.arg_after.form = call.arg.form
           /\ call.arg_after.keys = call.arg.keys
           /\ IF call.arg.form = "list" /\ call.arg.items # <<>>
                 /\ call.arg.items[1].t = "float"
              THEN FloatVals(call.arg_after.items)
                     \in {FloatVals(call.arg.items),
                          remove_zero_one(FloatVals(call.arg.items))}
              ELSE /\ Len(call.arg_after.items) = Len(call.arg.items)
                   /\ \A i \in 1..Len(call.arg.items) :
                        \/ call.arg_after.items[i] = call.arg.items[i]
                        \/ /\ call.arg.items[i].t = "list"
                           /\ call.arg_after.items[i]
                                = ListItem(remove_zero_one(call.arg.items[i].vals))

\* a call that raises has changed a list of its argument
ArgumentChangedByFailedCall ==
    /\ Returned("quantiles")
    /\ err # NoError
    /\ call.arg_after # call.arg

====
